---------------------------- MODULE Spec2Model ----------------------------
(***************************************************************************)
(* The autoregressive generation controller of cactus: the session         *)
(* (cactus_context), its context window (embd / n_past / n_keep / n_ctx),  *)
(* the per-token generation loop (nextToken / doCompletion), the stop      *)
(* matcher (findStoppingStrings) and the drivers that run the loop         *)
(* (cactus_completion_c, continueConversation).                            *)
(*                                                                         *)
(* The session object is one record, ctx; every method of cactus_context   *)
(* is an operator from a session record to a session record, so a handler  *)
(* that calls several methods is the composition of their operators.       *)
(* Text is a sequence of bytes (0..255); a token is an integer id.         *)
(***************************************************************************)
EXTENDS Integers, Sequences, FiniteSets, TLC

VARIABLES
    ctx,      \* the cactus_context object (a record of its fields)
    pc,       \* where the driver of the session is: "idle" | "loop" | "decode" | "media"
    driver,   \* the driver called last: "none" | "completion_c" | "conversation" |
              \* "multimodal_completion_c" | "load_prompt_with_media_c"
    result,   \* the nextToken call in flight or last returned: its locals and result
    calls,    \* number of driver calls made so far (bounds the model)
    probe,    \* the last cactus_find_stopping_strings_c call: arguments and result
    media     \* the processMedia call in flight or last returned: its locals

vars == <<ctx, pc, driver, result, calls, probe, media>>

-----------------------------------------------------------------------------
(* Bounds of the model *)

MaxCalls == 2          \* driver calls (episodes) per session
MaxSteps == 3          \* sampled tokens per episode

-----------------------------------------------------------------------------
(* Integer arithmetic of the C++ code *)

\* size_t arithmetic is modular; the model keeps a 16-bit stand-in width, far
\* above every count the bounds allow.
SizeModulus == 2 ^ 16
SizeMax == SizeModulus - 1
ToSizeT(x) == x % SizeModulus
\* the signed reading of a size_t value (the conversion size_t -> int)
ToInt(x) == IF (x % SizeModulus) >= SizeModulus \div 2
            THEN (x % SizeModulus) - SizeModulus ELSE x % SizeModulus

\* C++ integer division truncates toward zero
CDiv(a, b) == IF a >= 0 THEN a \div b ELSE -((-a) \div b)

Min(a, b) == IF a < b THEN a ELSE b
Max(a, b) == IF a > b THEN a ELSE b

\* std::vector::resize: cut, or pad with value-initialised (0) elements
Resize(s, n) == [i \in 1..n |-> IF i <= Len(s) THEN s[i] ELSE 0]

-----------------------------------------------------------------------------
(* Vocabulary *)

EosToken == 2
ControlToken == 1
NewlineToken == 198
LLAMA_TOKEN_NULL == -1

llama_vocab_is_eog(t) == t = EosToken
llama_vocab_is_control(t) == t \in {ControlToken, EosToken}

\* common_token_to_piece: the bytes a token renders to.  Ids 3..255 other than
\* the newline id are byte tokens rendering to the byte of the same value;
\* special tokens render to their (ASCII) text, shortened to one byte.
common_token_to_piece(t) ==
    IF t = EosToken THEN <<62>>
    ELSE IF t = ControlToken THEN <<60>>
    ELSE IF t = NewlineToken THEN <<10>>
    ELSE IF t \in 3..255 THEN <<t>>
    ELSE <<63>>


-----------------------------------------------------------------------------
(* The backend's KV cache of sequence 0, as the session drives it: kv[p + 1]
   is what the cell at position p was computed from (a token id, or a media
   item), NoCell where the position holds nothing. *)

NoCell == -2

KvGet(kv, p) == IF p >= 0 /\ p < Len(kv) THEN kv[p + 1] ELSE NoCell

\* cells of the positions 0..n-1, without the empty tail
KvTrim(kv) ==
    LET used == {i \in 1..Len(kv) : kv[i] # NoCell}
        n == IF used = {} THEN 0 ELSE CHOOSE i \in used : \A j \in used : j <= i
    IN  SubSeq(kv, 1, n)

\* llama_kv_self_seq_rm(ctx, 0, p0, p1); p1 < 0 stands for the end of the cache
llama_kv_self_seq_rm(kv, p0, p1) ==
    KvTrim([i \in 1..Len(kv) |->
               IF i - 1 >= p0 /\ (p1 < 0 \/ i - 1 < p1) THEN NoCell ELSE kv[i]])

\* llama_kv_self_seq_add(ctx, 0, p0, p1, delta): the cells of [p0, p1) move by delta
llama_kv_self_seq_add(kv, p0, p1, delta) ==
    LET Moved(q) == q >= p0 /\ q < p1 /\ KvGet(kv, q) # NoCell
    IN  KvTrim([i \in 1..(Len(kv) + Max(0, delta)) |->
                   IF Moved(i - 1 - delta) THEN KvGet(kv, i - 1 - delta)
                   ELSE IF Moved(i - 1) THEN NoCell
                   ELSE KvGet(kv, i - 1)])

\* The cache value a session stores
CacheOf(s, kv) == IF s.cache_modelled THEN kv ELSE <<>>

\* A successful decode of cells at the positions p0, p0 + 1, ...
KvDecode(kv, p0, cells) ==
    [i \in 1..Max(Len(kv), p0 + Len(cells)) |->
        IF i - 1 >= p0 /\ i - 1 < p0 + Len(cells) THEN cells[i - p0] ELSE KvGet(kv, i - 1)]

-----------------------------------------------------------------------------
(* cactus_context: construction and the episode-scoped resets *)

\* The object after loadModel: the field initialisers of the struct, the
\* params given at load time, and n_ctx as the backend reports it (the
\* backend is created with the requested size, so the two agree).  kv is the
\* cache of the llama_context the session owns; cache_modelled is no field of
\* the program: it says whether the model follows that cache cell by cell or
\* leaves it out of the state (kv stays empty).
NewContext(nctx, nkeep, nbatch) ==
    [ is_predicting |-> FALSE, is_interrupted |-> FALSE, has_next_token |-> FALSE,
      generated_text |-> <<>>,
      num_prompt_tokens |-> 0, num_tokens_predicted |-> 0, n_past |-> 0, n_remain |-> 0,
      embd |-> <<>>,
      n_ctx |-> nctx, params_n_ctx |-> nctx, n_keep |-> nkeep, n_batch |-> nbatch,
      n_predict |-> -1, antiprompt |-> <<>>,
      truncated |-> FALSE, stopped_eos |-> FALSE, stopped_word |-> FALSE,
      stopped_limit |-> FALSE, stopping_word |-> <<>>, incomplete |-> FALSE,
      context_full |-> FALSE,
      guide_tokens |-> <<>>, next_token_uses_guide_token |-> TRUE,
      conversation_active |-> FALSE,
      has_multimodal |-> TRUE, mtmd_bitmap_past_hashes |-> <<>>,
      kv |-> <<>>, cache_modelled |-> FALSE ]

rewind(s) ==
    [s EXCEPT !.is_interrupted = FALSE, !.is_predicting = FALSE,
              !.antiprompt = <<>>,
              !.num_prompt_tokens = 0, !.num_tokens_predicted = 0,
              !.generated_text = <<>>,
              !.truncated = FALSE, !.context_full = FALSE,
              !.stopped_eos = FALSE, !.stopped_word = FALSE, !.stopped_limit = FALSE,
              !.stopping_word = <<>>, !.incomplete = FALSE,
              !.n_remain = 0, !.n_past = 0, !.embd = <<>>,
              !.next_token_uses_guide_token = TRUE, !.guide_tokens = <<>>,
              !.mtmd_bitmap_past_hashes = <<>>]

beginCompletion(s) ==
    [s EXCEPT !.n_remain = ToSizeT(s.n_predict),
              !.is_predicting = TRUE,
              !.num_tokens_predicted = 0, !.num_prompt_tokens = 0,
              !.generated_text = <<>>, !.stopping_word = <<>>,
              !.stopped_eos = FALSE, !.stopped_word = FALSE, !.stopped_limit = FALSE,
              !.truncated = FALSE]

setGuideTokens(s, tokens) == [s EXCEPT !.guide_tokens = tokens]

-----------------------------------------------------------------------------
(* Prompt loading and truncation *)

\* A truncatePrompt that erases the blocks from the start of the prompt
TruncatedTokensFromStart(s, prompt_tokens) ==
    LET n_left == s.n_ctx - s.n_keep
        n_block_size == IF n_left > 0 THEN CDiv(n_left, 2) ELSE 0
        erased_blocks ==
            IF n_block_size > 0
            THEN ToInt(ToSizeT(Len(prompt_tokens) - s.n_keep - n_block_size) \div n_block_size)
            ELSE 0
    IN  SubSeq(prompt_tokens, Max(0, erased_blocks * n_block_size) + 1, Len(prompt_tokens))

\* The token vector truncatePrompt leaves in prompt_tokens.
TruncatedTokens(s, prompt_tokens) ==
    LET n_left == s.n_ctx - s.n_keep
        n_block_size == IF n_left > 0 THEN CDiv(n_left, 2) ELSE 0
        erased_blocks ==
            IF n_block_size > 0
            THEN ToInt(ToSizeT(Len(prompt_tokens) - s.n_keep - n_block_size) \div n_block_size)
            ELSE 0
        keep_count == Min(Max(0, s.n_keep), Len(prompt_tokens))
        end_part_start_index == keep_count + Max(0, erased_blocks * n_block_size)
    IN  SubSeq(prompt_tokens, 1, keep_count)
        \o (IF end_part_start_index < Len(prompt_tokens)
            THEN SubSeq(prompt_tokens, end_part_start_index + 1, Len(prompt_tokens))
            ELSE <<>>)

truncatePrompt(s) ==
    [s EXCEPT !.embd = TruncatedTokens(s, s.embd), !.truncated = TRUE]

\* params.n_keep as loadPrompt leaves it
ClampKeep(s) ==
    LET k1 == IF s.n_keep < 0 THEN ToInt(s.num_prompt_tokens) ELSE s.n_keep
        k2 == Min(IF s.n_ctx > 4 THEN s.n_ctx - 4 ELSE 0, k1)
    IN  [s EXCEPT !.n_keep = Max(0, k2)]

\* loadPrompt(): new_tokens is what common_tokenize returns for params.prompt
loadPrompt(s, new_tokens) ==
    LET is_continuation == s.embd # <<>>
        s1 == IF is_continuation
              THEN [s EXCEPT !.embd = s.embd \o new_tokens]
              ELSE [s EXCEPT !.embd = new_tokens, !.n_past = 0]
        s2 == ClampKeep([s1 EXCEPT !.num_prompt_tokens = Len(s1.embd)])
        s3 == IF Len(s2.embd) >= s2.n_ctx
              THEN LET t == truncatePrompt(s2)
                   IN  [t EXCEPT !.num_prompt_tokens = Len(t.embd)]
              ELSE s2
    IN  [s3 EXCEPT !.has_next_token = TRUE]

\* LM_GGML_ASSERT(embd.size() < n_ctx || n_ctx == 0), reached when loadPrompt
\* truncates, holds
loadPromptAssertOk(s, new_tokens) ==
    LET grown == IF s.embd # <<>> THEN Len(s.embd) + Len(new_tokens) ELSE Len(new_tokens)
        r == loadPrompt(s, new_tokens)
    IN  grown >= s.n_ctx => (Len(r.embd) < r.n_ctx \/ r.n_ctx = 0)

-----------------------------------------------------------------------------
(* nextToken: the context shift *)

\* n_discard of the shift block
ShiftDiscard(s) == CDiv(ToInt(ToSizeT(s.n_past - s.n_keep - 1)), 2)

\* The two cache calls of the shift block
ShiftCache(s) ==
    LET d == ShiftDiscard(s)
    IN  CacheOf(s, llama_kv_self_seq_add(
                       llama_kv_self_seq_rm(s.kv, s.n_keep + 1, s.n_keep + d + 1),
                       s.n_keep + 1 + d, s.n_past, -d))

\* A shift that drops the oldest n_discard tokens
ShiftWindowFromFront(s) ==
    LET d == ShiftDiscard(s)
    IN  [s EXCEPT !.kv = ShiftCache(s),
                  !.embd = SubSeq(@, d + 1, Len(@)),
                  !.n_past = ToSizeT(s.n_past - d),
                  !.truncated = TRUE]

\* A shift that removes the n_discard tokens right after the first n_keep
ShiftWindowAfterKeep(s) ==
    LET d == ShiftDiscard(s)
        size == Len(s.embd)
    IN  [s EXCEPT !.kv = ShiftCache(s),
                  !.embd = [j \in 1..(size - d) |->
                               IF j <= s.n_keep THEN s.embd[j] ELSE s.embd[j + d]],
                  !.n_past = ToSizeT(s.n_past - d),
                  !.truncated = TRUE]

\* The shift block with n_discard >= 0: embd[i - n_discard] = embd[i] from
\* index n_keep + 1 + n_discard on, then resize and the n_past adjustment.
ShiftWindow(s) ==
    LET d == ShiftDiscard(s)
        size == Len(s.embd)
    IN  [s EXCEPT !.kv = ShiftCache(s),
                  !.embd = [j \in 1..(size - d) |->
                               IF j <= s.n_keep + 1 THEN s.embd[j] ELSE s.embd[j + d]],
                  !.n_past = ToSizeT(s.n_past - d),
                  !.truncated = TRUE]

\* The shift block with n_discard < 0 writes embd[i + |d|] past the end of the
\* vector (undefined behaviour).  When the writes land in spare capacity the
\* copy loop propagates forward and resize appends |d| zeros.
ShiftWindowOverrun(s) ==
    LET d == -ShiftDiscard(s)
        size == Len(s.embd)
        start == s.n_keep + 1 - d          \* 0-based index the loop starts at
    IN  [s EXCEPT !.kv = ShiftCache(s),
                  !.embd = [j \in 1..(size + d) |->
                               IF j > size THEN 0
                               ELSE IF j - 1 < start + d THEN s.embd[j]
                               ELSE s.embd[start + ((j - 1 - start) % d) + 1]],
                  !.n_past = ToSizeT(s.n_past + d),
                  !.truncated = TRUE]

-----------------------------------------------------------------------------
(* nextToken: sampling, and the rest of doCompletion *)

\* A sampling block that takes the front guide token whatever the latch says
SampleTokenNoLatch(s, proposed, tg) ==
    IF s.n_predict = 0
    THEN [s |-> [s EXCEPT !.has_next_token = FALSE], tok |-> EosToken]
    ELSE
    LET use_guide == /\ s.guide_tokens # <<>>
                     /\ ~llama_vocab_is_control(proposed)
                     /\ ~llama_vocab_is_eog(proposed)
        new_token_id == IF use_guide THEN Head(s.guide_tokens) ELSE proposed
        s1 == [s EXCEPT !.guide_tokens = IF use_guide THEN Tail(@) ELSE @,
                        !.next_token_uses_guide_token = (new_token_id = NewlineToken),
                        !.num_tokens_predicted = IF tg THEN @ + 1 ELSE @,
                        !.embd = Append(@, new_token_id),
                        !.n_remain = IF @ > 0 THEN @ - 1 ELSE @]
        s2 == IF new_token_id = EosToken
              THEN [s1 EXCEPT !.has_next_token = FALSE, !.stopped_eos = TRUE]
              ELSE [s1 EXCEPT !.has_next_token = (s1.n_predict = -1 \/ s1.n_remain > 0)]
    IN  [s |-> s2, tok |-> new_token_id]

\* A sampling block that ends on EOS without recording it
SampleTokenEosUnflagged(s, proposed, tg) ==
    IF s.n_predict = 0
    THEN [s |-> [s EXCEPT !.has_next_token = FALSE], tok |-> EosToken]
    ELSE
    LET use_guide == /\ s.next_token_uses_guide_token
                     /\ s.guide_tokens # <<>>
                     /\ ~llama_vocab_is_control(proposed)
                     /\ ~llama_vocab_is_eog(proposed)
        new_token_id == IF use_guide THEN Head(s.guide_tokens) ELSE proposed
        s1 == [s EXCEPT !.guide_tokens = IF use_guide THEN Tail(@) ELSE @,
                        !.next_token_uses_guide_token = (new_token_id = NewlineToken),
                        !.num_tokens_predicted = IF tg THEN @ + 1 ELSE @,
                        !.embd = Append(@, new_token_id),
                        !.n_remain = IF @ > 0 THEN @ - 1 ELSE @]
        s2 == IF new_token_id = EosToken
              THEN [s1 EXCEPT !.has_next_token = FALSE]
              ELSE [s1 EXCEPT !.has_next_token = (s1.n_predict = -1 \/ s1.n_remain > 0)]
    IN  [s |-> s2, tok |-> new_token_id]

\* A sampling block that never spends the budget n_remain
SampleTokenKeepsBudget(s, proposed, tg) ==
    IF s.n_predict = 0
    THEN [s |-> [s EXCEPT !.has_next_token = FALSE], tok |-> EosToken]
    ELSE
    LET use_guide == /\ s.next_token_uses_guide_token
                     /\ s.guide_tokens # <<>>
                     /\ ~llama_vocab_is_control(proposed)
                     /\ ~llama_vocab_is_eog(proposed)
        new_token_id == IF use_guide THEN Head(s.guide_tokens) ELSE proposed
        s1 == [s EXCEPT !.guide_tokens = IF use_guide THEN Tail(@) ELSE @,
                        !.next_token_uses_guide_token = (new_token_id = NewlineToken),
                        !.num_tokens_predicted = IF tg THEN @ + 1 ELSE @,
                        !.embd = Append(@, new_token_id)]
        s2 == IF new_token_id = EosToken
              THEN [s1 EXCEPT !.has_next_token = FALSE, !.stopped_eos = TRUE]
              ELSE [s1 EXCEPT !.has_next_token = (s1.n_predict = -1 \/ s1.n_remain > 0)]
    IN  [s |-> s2, tok |-> new_token_id]

\* A sampling block that lets the guide queue override any proposal
SampleTokenGuideAnyProposal(s, proposed, tg) ==
    IF s.n_predict = 0
    THEN [s |-> [s EXCEPT !.has_next_token = FALSE], tok |-> EosToken]
    ELSE
    LET use_guide == /\ s.next_token_uses_guide_token
                     /\ s.guide_tokens # <<>>
        new_token_id == IF use_guide THEN Head(s.guide_tokens) ELSE proposed
        s1 == [s EXCEPT !.guide_tokens = IF use_guide THEN Tail(@) ELSE @,
                        !.next_token_uses_guide_token = (new_token_id = NewlineToken),
                        !.num_tokens_predicted = IF tg THEN @ + 1 ELSE @,
                        !.embd = Append(@, new_token_id),
                        !.n_remain = IF @ > 0 THEN @ - 1 ELSE @]
        s2 == IF new_token_id = EosToken
              THEN [s1 EXCEPT !.has_next_token = FALSE, !.stopped_eos = TRUE]
              ELSE [s1 EXCEPT !.has_next_token = (s1.n_predict = -1 \/ s1.n_remain > 0)]
    IN  [s |-> s2, tok |-> new_token_id]

\* The sampling block and what follows it in nextToken; proposed is what
\* common_sampler_sample returns, tg the local flag of the decode loop.
\* Gives the session and the token returned.
SampleToken(s, proposed, tg) ==
    IF s.n_predict = 0
    THEN [s |-> [s EXCEPT !.has_next_token = FALSE], tok |-> EosToken]
    ELSE
    LET use_guide == /\ s.next_token_uses_guide_token
                     /\ s.guide_tokens # <<>>
                     /\ ~llama_vocab_is_control(proposed)
                     /\ ~llama_vocab_is_eog(proposed)
        new_token_id == IF use_guide THEN Head(s.guide_tokens) ELSE proposed
        s1 == [s EXCEPT !.guide_tokens = IF use_guide THEN Tail(@) ELSE @,
                        !.next_token_uses_guide_token = (new_token_id = NewlineToken),
                        !.num_tokens_predicted = IF tg THEN @ + 1 ELSE @,
                        !.embd = Append(@, new_token_id),
                        !.n_remain = IF @ > 0 THEN @ - 1 ELSE @]
        s2 == IF new_token_id = EosToken
              THEN [s1 EXCEPT !.has_next_token = FALSE, !.stopped_eos = TRUE]
              ELSE [s1 EXCEPT !.has_next_token = (s1.n_predict = -1 \/ s1.n_remain > 0)]
    IN  [s |-> s2, tok |-> new_token_id]

IsContinuation(c) == c >= 128 /\ c < 192      \* (c & 0xC0) == 0x80
IsLead2(c) == c >= 192 /\ c < 224             \* (c & 0xE0) == 0xC0
IsLead3(c) == c >= 224 /\ c < 240             \* (c & 0xF0) == 0xE0
IsLead4(c) == c >= 240 /\ c < 248             \* (c & 0xF8) == 0xF0

\* The lookback loop of doCompletion, from distance lookback
RECURSIVE Lookback(_, _)
Lookback(text, lookback) ==
    IF ~(lookback < 4 /\ lookback < Len(text)) THEN FALSE
    ELSE LET prev_c == text[Len(text) - lookback]
         IN  IF prev_c >= 192                              \* (prev_c & 0xC0) == 0xC0
             THEN LET expected_continuation_bytes ==
                          IF IsLead2(prev_c) THEN 1
                          ELSE IF IsLead3(prev_c) THEN 2
                          ELSE IF IsLead4(prev_c) THEN 3 ELSE 0
                  IN  lookback < expected_continuation_bytes
             ELSE IF prev_c < 128 THEN FALSE               \* (prev_c & 0x80) == 0
             ELSE Lookback(text, lookback + 1)

\* A check that looks at the last byte only
IncompleteOfLastByte(text) ==
    IF text = <<>> THEN FALSE
    ELSE LET c == text[Len(text)]
         IN  IsLead2(c) \/ IsLead3(c) \/ IsLead4(c)

\* The value doCompletion gives to incomplete
IncompleteOf(text) ==
    IF text = <<>> THEN FALSE
    ELSE LET c == text[Len(text)]
         IN  IF IsContinuation(c) THEN Lookback(text, 1)
             ELSE IsLead2(c) \/ IsLead3(c) \/ IsLead4(c)

\* A doCompletion that lets the episode stop on an incomplete sequence
AfterTokenNoExtension(s, tok) ==
    LET token_text == IF tok # -1 THEN common_token_to_piece(tok) ELSE <<>>
        text == s.generated_text \o token_text
        s1 == [s EXCEPT !.generated_text = text, !.incomplete = IncompleteOf(text)]
    IN  IF ~s1.has_next_token /\ s1.n_remain = 0 /\ s1.n_predict # -1
        THEN [s1 EXCEPT !.stopped_limit = TRUE]
        ELSE s1

\* doCompletion after nextToken returned tok (the early return on
\* tok == -1 && !has_next_token is taken by the caller of this operator)
AfterToken(s, tok) ==
    LET token_text == IF tok # -1 THEN common_token_to_piece(tok) ELSE <<>>
        text == s.generated_text \o token_text
        inc == IncompleteOf(text)
        s1 == [s EXCEPT !.generated_text = text, !.incomplete = inc]
        s2 == IF inc /\ ~s1.has_next_token
              THEN [s1 EXCEPT !.has_next_token = TRUE,
                              !.n_remain = IF s1.n_predict # -1 THEN ToSizeT(@ + 1) ELSE @]
              ELSE s1
    IN  IF ~s2.has_next_token /\ s2.n_remain = 0 /\ s2.n_predict # -1
        THEN [s2 EXCEPT !.stopped_limit = TRUE]
        ELSE s2

-----------------------------------------------------------------------------
(* Stop matching *)

npos == SizeMax                       \* std::string::npos

\* A find that ignores from_pos
StrFindFromStart(text, word, from_pos) ==
    LET hits == {q \in 0..(Len(text) - Len(word)) :
                    SubSeq(text, q + 1, q + Len(word)) = word}
    IN  IF hits = {} THEN SizeMax
        ELSE CHOOSE q \in hits : \A r \in hits : q <= r

\* std::string::find(word, from_pos): 0-based index of the first occurrence
\* starting at or after from_pos
StrFind(text, word, from_pos) ==
    LET hits == {q \in from_pos..(Len(text) - Len(word)) :
                    SubSeq(text, q + 1, q + Len(word)) = word}
    IN  IF hits = {} THEN npos
        ELSE CHOOSE q \in hits : \A r \in hits : q <= r

ends_with(str, suffix) ==
    /\ Len(str) >= Len(suffix)
    /\ SubSeq(str, Len(str) - Len(suffix) + 1, Len(str)) = suffix

\* the loop of find_partial_stop_string at index i (0-based) and below
RECURSIVE PartialFrom(_, _, _)
PartialFrom(stop, text, i) ==
    IF i < 0 THEN npos
    ELSE IF stop[i + 1] = text[Len(text)] /\ ends_with(text, SubSeq(stop, 1, i + 1))
         THEN Len(text) - (i + 1)
         ELSE PartialFrom(stop, text, i - 1)

\* A partial matcher that settles for the shortest prefix of stop the text ends with
find_partial_stop_string_shortest(stop, text) ==
    LET lens == {n \in 1..Min(Len(stop), Len(text)) : ends_with(text, SubSeq(stop, 1, n))}
    IN  IF lens = {} THEN npos
        ELSE Len(text) - (CHOOSE n \in lens : \A m \in lens : n <= m)

find_partial_stop_string(stop, text) ==
    IF text # <<>> /\ stop # <<>> THEN PartialFrom(stop, text, Len(stop) - 1) ELSE npos

STOP_FULL == "STOP_FULL"
STOP_PARTIAL == "STOP_PARTIAL"

\* A matcher loop in which a later stop string takes over a tie
RECURSIVE StopLoopLastWins(_, _, _, _, _)
StopLoopLastWins(acc, text, last_token_size, type, k) ==
    IF k > Len(acc.s.antiprompt) THEN acc
    ELSE
    LET word == acc.s.antiprompt[k]
        tmp_len == Len(word) + last_token_size
        from_pos == IF Len(text) > tmp_len THEN Len(text) - tmp_len ELSE 0
        pos == IF type = STOP_FULL THEN StrFind(text, word, from_pos)
               ELSE find_partial_stop_string(word, text)
        next == IF word = <<>> THEN acc
                ELSE IF pos # npos /\ (acc.stop_pos = npos \/ pos <= acc.stop_pos)
                THEN [stop_pos |-> pos,
                      s |-> IF type = STOP_FULL
                            THEN [acc.s EXCEPT !.stopping_word = word,
                                               !.stopped_word = TRUE,
                                               !.has_next_token = FALSE]
                            ELSE acc.s]
                ELSE acc
    IN  StopLoopLastWins(next, text, last_token_size, type, k + 1)

findStoppingStringsLastWins(s, text, last_token_size, type) ==
    StopLoopLastWins([s |-> s, stop_pos |-> npos], text, last_token_size, type, 1)

\* A matcher loop whose window covers the stop string's length only
RECURSIVE StopLoopNarrowWindow(_, _, _, _, _)
StopLoopNarrowWindow(acc, text, last_token_size, type, k) ==
    IF k > Len(acc.s.antiprompt) THEN acc
    ELSE
    LET word == acc.s.antiprompt[k]
        tmp_len == Len(word)
        from_pos == IF Len(text) > tmp_len THEN Len(text) - tmp_len ELSE 0
        pos == IF type = STOP_FULL THEN StrFind(text, word, from_pos)
               ELSE find_partial_stop_string(word, text)
        next == IF word = <<>> THEN acc
                ELSE IF pos # npos /\ (acc.stop_pos = npos \/ pos < acc.stop_pos)
                THEN [stop_pos |-> pos,
                      s |-> IF type = STOP_FULL
                            THEN [acc.s EXCEPT !.stopping_word = word,
                                               !.stopped_word = TRUE,
                                               !.has_next_token = FALSE]
                            ELSE acc.s]
                ELSE acc
    IN  StopLoopNarrowWindow(next, text, last_token_size, type, k + 1)

findStoppingStringsNarrowWindow(s, text, last_token_size, type) ==
    StopLoopNarrowWindow([s |-> s, stop_pos |-> npos], text, last_token_size, type, 1)

\* One iteration of the loop of findStoppingStrings over the word at index k of
\* antiprompt; acc is [s: the session, stop_pos: the local]
RECURSIVE StopLoop(_, _, _, _, _)
StopLoop(acc, text, last_token_size, type, k) ==
    IF k > Len(acc.s.antiprompt) THEN acc
    ELSE
    LET word == acc.s.antiprompt[k]
        tmp_len == Len(word) + last_token_size
        from_pos == IF Len(text) > tmp_len THEN Len(text) - tmp_len ELSE 0
        pos == IF type = STOP_FULL THEN StrFind(text, word, from_pos)
               ELSE find_partial_stop_string(word, text)
        next == IF word = <<>> THEN acc
                ELSE IF pos # npos /\ (acc.stop_pos = npos \/ pos < acc.stop_pos)
                THEN [stop_pos |-> pos,
                      s |-> IF type = STOP_FULL
                            THEN [acc.s EXCEPT !.stopping_word = word,
                                               !.stopped_word = TRUE,
                                               !.has_next_token = FALSE]
                            ELSE acc.s]
                ELSE acc
    IN  StopLoop(next, text, last_token_size, type, k + 1)

\* findStoppingStrings: gives [s: the session after the call, stop_pos: the result]
findStoppingStrings(s, text, last_token_size, type) ==
    StopLoop([s |-> s, stop_pos |-> npos], text, last_token_size, type, 1)

-----------------------------------------------------------------------------
(* The drivers and the steps of the generation loop *)

\* The tokens the tokenizer gives for the prompt of driver call number c
PromptTokens(c, n) == [i \in 1..n |-> 1000 + 100 * c + i]

NoResult == [tok |-> -1, outcome |-> "none", shifted |-> FALSE, tg |-> TRUE, proposed |-> -1]
NoProbe == [text |-> <<>>, last_token_size |-> 0, type |-> "none", pos |-> npos]
NoMedia == [tokens |-> <<>>, chunks |-> <<>>, chunk_pos |-> <<>>, chunk_pos_media |-> <<>>,
            bitmap_hashes |-> <<>>, aligned |-> 0, evaluated |-> 0, i |-> 1,
            outcome |-> "none", before |-> NewContext(0, 0, 0)]

\* cactus_completion_c up to its while loop
cactus_completion_c(plen, n_predict, stop_sequences) ==
    /\ pc = "idle"
    /\ calls < MaxCalls
    /\ LET new_tokens == PromptTokens(calls + 1, plen)
           s0 == IF ctx.embd = <<>> THEN rewind(ctx) ELSE ctx
           s1 == [s0 EXCEPT !.n_predict = n_predict, !.antiprompt = stop_sequences]
           s2 == beginCompletion(s1)
       IN  /\ ctx' = loadPrompt(s2, new_tokens)
           /\ pc' = IF loadPromptAssertOk(s2, new_tokens) THEN "loop" ELSE "aborted"
    /\ driver' = "completion_c"
    /\ calls' = calls + 1
    /\ result' = NoResult
    /\ UNCHANGED <<probe, media>>

\* continueConversation up to its while loop
continueConversation(ulen, max_tokens) ==
    /\ pc = "idle"
    /\ calls < MaxCalls
    /\ LET new_tokens == PromptTokens(calls + 1, ulen)
           is_first_message == ~ctx.conversation_active \/ ctx.embd = <<>>
           s1 == beginCompletion([ctx EXCEPT !.n_predict = max_tokens])
       IN  IF is_first_message
           THEN /\ ctx' = [loadPrompt(s1, new_tokens) EXCEPT !.conversation_active = TRUE]
                /\ pc' = IF loadPromptAssertOk(s1, new_tokens) THEN "loop" ELSE "aborted"
           ELSE /\ ctx' = [ctx EXCEPT !.embd = @ \o new_tokens,
                                      !.n_predict = max_tokens,
                                      !.n_remain = ToSizeT(max_tokens),
                                      !.has_next_token = TRUE,
                                      !.is_predicting = TRUE,
                                      !.generated_text = <<>>]
                /\ pc' = "loop"
    /\ driver' = "conversation"
    /\ calls' = calls + 1
    /\ result' = NoResult
    /\ UNCHANGED <<probe, media>>

\* A loop condition that does not poll is_interrupted
LoopConditionNoPoll(s) == s.has_next_token

\* The condition of the drivers' while loop
LoopCondition(s) == s.has_next_token /\ ~s.is_interrupted

\* The driver's loop condition holds: doCompletion -> nextToken starts, and
\* runs its context-shift block
StepBegin ==
    /\ pc = "loop"
    /\ LoopCondition(ctx)
    /\ IF Len(ctx.embd) >= ctx.params_n_ctx
       THEN IF ShiftDiscard(ctx) >= 0
            THEN /\ ctx' = ShiftWindow(ctx)
                 /\ pc' = "decode"
            ELSE \/ /\ ctx' = ShiftWindowOverrun(ctx)
                    /\ pc' = "decode"
                 \/ /\ ctx' = ctx
                    /\ pc' = "crashed"
       ELSE /\ ctx' = ctx
            /\ pc' = "decode"
    /\ result' = [tok |-> -1, outcome |-> "running",
                  shifted |-> (Len(ctx.embd) >= ctx.params_n_ctx), tg |-> TRUE,
                  proposed |-> -1]
    /\ UNCHANGED <<driver, calls, probe, media>>

\* The driver's loop condition fails: the driver fills the result record and returns
LoopExit ==
    /\ pc = "loop"
    /\ ~LoopCondition(ctx)
    /\ ctx' = [ctx EXCEPT !.is_predicting = FALSE]
    /\ pc' = "idle"
    /\ UNCHANGED <<driver, result, calls, probe, media>>

\* A failure path that counts the failed chunk as decoded
DecodeFailedLossy(s) == [s EXCEPT !.has_next_token = FALSE, !.n_past = @ + 1]

\* nextToken when llama_decode fails
DecodeFailed(s) == [s EXCEPT !.has_next_token = FALSE]

\* A decode loop that, interrupted, drops the tokens not yet decoded but
\* leaves has_next_token alone
DecodeSucceededKeepsNext(s, n_eval) ==
    LET s1 == [s EXCEPT !.n_past = @ + n_eval]
    IN  IF s1.is_interrupted
        THEN [s1 EXCEPT !.embd = Resize(@, s1.n_past)]
        ELSE s1

\* nextToken when a chunk of n_eval tokens decoded
DecodeSucceeded(s, n_eval) ==
    LET s1 == [s EXCEPT !.kv = CacheOf(s, KvDecode(@, s.n_past,
                                           SubSeq(s.embd, s.n_past + 1, s.n_past + n_eval))),
                        !.n_past = @ + n_eval]
    IN  IF s1.is_interrupted
        THEN [s1 EXCEPT !.embd = Resize(@, s1.n_past), !.has_next_token = FALSE]
        ELSE s1

\* One iteration of the decode loop of nextToken; ok is what llama_decode
\* answers.  The backend has room for n_ctx positions.  After a failure or an
\* interruption nextToken returns -1, doCompletion returns at once and the
\* driver breaks out of its loop and returns.
DecodeChunk(ok) ==
    /\ pc = "decode"
    /\ ctx.n_past < Len(ctx.embd)
    /\ LET n_eval0 == Len(ctx.embd) - ctx.n_past
           n_eval == Min(n_eval0, ctx.n_batch)
       IN  /\ n_eval > 0
           /\ ok => ctx.n_past + n_eval <= ctx.n_ctx
           /\ ok => \A k \in (ctx.n_past + 1)..(ctx.n_past + n_eval) :
                        ctx.embd[k] # LLAMA_TOKEN_NULL
           /\ IF ~ok
              THEN /\ ctx' = [DecodeFailed(ctx) EXCEPT !.is_predicting = FALSE]
                   /\ result' = [result EXCEPT !.tg = (n_eval0 = 1), !.outcome = "decode_failed"]
                   /\ pc' = "idle"
              ELSE IF ctx.is_interrupted
              THEN /\ ctx' = [DecodeSucceeded(ctx, n_eval) EXCEPT !.is_predicting = FALSE]
                   /\ result' = [result EXCEPT !.tg = (n_eval0 = 1), !.outcome = "interrupted"]
                   /\ pc' = "idle"
              ELSE /\ ctx' = DecodeSucceeded(ctx, n_eval)
                   /\ result' = [result EXCEPT !.tg = (n_eval0 = 1)]
                   /\ pc' = "decode"
    /\ UNCHANGED <<driver, calls, probe, media>>

\* The decode loop is over: nextToken samples, doCompletion finishes, and the
\* driver runs the token callback (cactus_completion_c only; continue_completion
\* is what it answers, TRUE also when there is none).
SampleStep(proposed, continue_completion) ==
    /\ pc = "decode"
    /\ ~(ctx.n_past < Len(ctx.embd))
    /\ Len(ctx.generated_text) < MaxSteps
    /\ LET r == SampleToken(ctx, proposed, result.tg)
           s == AfterToken(r.s, r.tok)
           stop == /\ driver \in {"completion_c", "multimodal_completion_c"}
                   /\ ~continue_completion
       IN  /\ ctx' = IF stop THEN [s EXCEPT !.is_interrupted = TRUE, !.is_predicting = FALSE]
                     ELSE s
           /\ pc' = IF stop THEN "idle" ELSE "loop"
           /\ result' = [result EXCEPT !.tok = r.tok, !.outcome = "token",
                                        !.proposed = IF ctx.n_predict = 0 THEN -1 ELSE proposed]
    /\ UNCHANGED <<driver, calls, probe, media>>

\* cactus_stop_completion_c, from any thread at any time
cactus_stop_completion_c ==
    /\ pc \notin {"crashed", "aborted"}
    /\ ~ctx.is_interrupted
    /\ ctx' = [ctx EXCEPT !.is_interrupted = TRUE]
    /\ UNCHANGED <<pc, driver, result, calls, probe, media>>

\* cactus_rewind_c between driver calls
cactus_rewind_c ==
    /\ pc = "idle"
    /\ calls > 0
    /\ ctx # rewind(ctx)
    /\ ctx' = rewind(ctx)
    /\ UNCHANGED <<pc, driver, result, calls, probe, media>>

\* cactus_set_guide_tokens_c between driver calls (count <= 0 returns at once)
cactus_set_guide_tokens_c(tokens) ==
    /\ pc = "idle"
    /\ tokens # <<>>
    /\ ctx' = setGuideTokens(ctx, tokens)
    /\ UNCHANGED <<pc, driver, result, calls, probe, media>>

\* cactus_find_stopping_strings_c between driver calls
cactus_find_stopping_strings_c(text, last_token_size, type) ==
    /\ pc = "idle"
    /\ LET r == findStoppingStrings(ctx, text, last_token_size, type)
       IN  /\ ctx' = r.s
           /\ probe' = [text |-> text, last_token_size |-> last_token_size,
                        type |-> type, pos |-> r.stop_pos]
    /\ UNCHANGED <<pc, driver, result, calls, media>>

-----------------------------------------------------------------------------
(* Multimodal prompt loading: tokenizeWithMedia, processMedia and
   loadPrompt(media_paths).  A turn is the prompt with its media items, given
   as the chunks mtmd_tokenize cuts it into at the media markers. *)

\* src says where a media item comes from: "file" and "data_base64" load;
\* the others are the ones tokenizeWithMedia throws for.
TextChunk(tokens) ==
    [type |-> "text", tokens |-> tokens, src |-> "none", hash |-> 0, n_pos |-> Len(tokens)]
MediaChunk(src, hash, n_pos) ==
    [type |-> "media", tokens |-> <<>>, src |-> src, hash |-> hash, n_pos |-> n_pos]

UnsupportedSources ==
    {"http", "data_no_comma", "data_not_base64", "data_undecodable",
     "file_unopenable", "file_undecodable"}

\* What the cache holds at a position of a media chunk: the item's embedding
MediaCell(hash) == -10 - hash

\* The tokens tokenizeWithMedia appends for one chunk
ChunkTokens(c) ==
    IF c.type = "text" THEN c.tokens ELSE [j \in 1..c.n_pos |-> LLAMA_TOKEN_NULL]

\* The cells the evaluation of one chunk leaves in the cache
ChunkCells(c) ==
    IF c.type = "text" THEN c.tokens ELSE [j \in 1..c.n_pos |-> MediaCell(c.hash)]

\* result.tokens after the first k chunks
RECURSIVE TokensUpTo(_, _)
TokensUpTo(turn, k) ==
    IF k = 0 THEN <<>> ELSE TokensUpTo(turn, k - 1) \o ChunkTokens(turn[k])

\* tokenizeWithMedia: ok is FALSE when it throws
tokenizeWithMedia(turn) ==
    LET mediaIdx == {i \in 1..Len(turn) : turn[i].type = "media"}
        chunk_pos == [i \in 1..Len(turn) |-> Len(TokensUpTo(turn, i - 1))]
        \* the k-th media chunk, in input order
        Kth(k) == CHOOSE i \in mediaIdx : Cardinality({j \in mediaIdx : j < i}) = k - 1
    IN  [ ok |-> \A i \in mediaIdx : turn[i].src \notin UnsupportedSources,
          tokens |-> TokensUpTo(turn, Len(turn)),
          chunk_pos |-> chunk_pos,
          chunk_pos_media |-> [k \in 1..Cardinality(mediaIdx) |-> chunk_pos[Kth(k)]],
          bitmap_hashes |-> [k \in 1..Cardinality(mediaIdx) |-> turn[Kth(k)].hash] ]

\* cactus_context::tokenize with media paths: the text is tokenized as it
\* stands, the media marker included (MarkerToken stands for its tokens), then
\* every media item appends a run of PlaceholderRun sentinels and a
\* "placeholder_hash_<i>" (PlaceholderHash); chunk_pos is {0}
MarkerToken == 9
PlaceholderRun == 256
PlaceholderHash(i) == 900 + i

RECURSIVE TextWithMarkers(_, _)
TextWithMarkers(turn, k) ==
    IF k = 0 THEN <<>>
    ELSE TextWithMarkers(turn, k - 1)
         \o (IF turn[k].type = "text" THEN turn[k].tokens ELSE <<MarkerToken>>)

tokenize(turn) ==
    LET text_tokens == TextWithMarkers(turn, Len(turn))
        n_media == Cardinality({i \in 1..Len(turn) : turn[i].type = "media"})
    IN  [ tokens |-> text_tokens \o [j \in 1..(n_media * PlaceholderRun) |-> LLAMA_TOKEN_NULL],
          chunk_pos |-> <<0>>,
          chunk_pos_media |-> [i \in 1..n_media |->
                                  Len(text_tokens) + (i - 1) * PlaceholderRun],
          bitmap_hashes |-> [i \in 1..n_media |-> PlaceholderHash(i - 1)] ]

common_part(a, b) ==
    LET limit == Min(Len(a), Len(b))
        diff == {i \in 1..limit : a[i] # b[i]}
    IN  IF diff = {} THEN limit ELSE (CHOOSE i \in diff : \A j \in diff : i <= j) - 1

\* processMedia, the chunk-boundary correction: a common prefix that ends
\* inside a chunk other than the last goes back to the start of that chunk
BoundaryAdjusted(n_past, chunk_pos) ==
    LET inside == {i \in 1..(Len(chunk_pos) - 1) :
                      chunk_pos[i] < n_past /\ chunk_pos[i + 1] > n_past}
    IN  IF inside = {} THEN n_past
        ELSE chunk_pos[CHOOSE i \in inside : \A j \in inside : j <= i]

\* A hash correction that clamps to the first differing media chunk wherever it lies
HashAdjustedAnyOffset(n_past, r, past_hashes) ==
    IF past_hashes = <<>> THEN n_past
    ELSE LET diff == {i \in 1..Min(Len(r.bitmap_hashes), Len(past_hashes)) :
                          r.bitmap_hashes[i] # past_hashes[i]}
         IN  IF diff = {} THEN n_past
             ELSE r.chunk_pos_media[CHOOSE k \in diff : \A j \in diff : k <= j]

\* A hash correction that restarts from the first media chunk on a mismatch
HashAdjustedToFirst(n_past, r, past_hashes) ==
    IF past_hashes = <<>> THEN n_past
    ELSE LET stop == {i \in 1..Len(r.bitmap_hashes) :
                          \/ n_past < r.chunk_pos_media[i]
                          \/ i > Len(past_hashes)
                          \/ r.bitmap_hashes[i] # past_hashes[i]}
         IN  IF stop = {} THEN n_past
             ELSE LET i == CHOOSE k \in stop : \A j \in stop : k <= j
                  IN  IF n_past >= r.chunk_pos_media[i] /\ i <= Len(past_hashes)
                      THEN r.chunk_pos_media[1]
                      ELSE n_past

\* processMedia, the media-hash correction: the loop stops at the first media
\* chunk that lies behind n_past, has no past hash, or has another hash; only
\* in the last case n_past becomes that chunk's offset
HashAdjusted(n_past, r, past_hashes) ==
    IF past_hashes = <<>> THEN n_past
    ELSE LET stop == {i \in 1..Len(r.bitmap_hashes) :
                          \/ n_past < r.chunk_pos_media[i]
                          \/ i > Len(past_hashes)
                          \/ r.bitmap_hashes[i] # past_hashes[i]}
         IN  IF stop = {} THEN n_past
             ELSE LET i == CHOOSE k \in stop : \A j \in stop : k <= j
                  IN  IF n_past >= r.chunk_pos_media[i] /\ i <= Len(past_hashes)
                      THEN r.chunk_pos_media[i]
                      ELSE n_past

\* processMedia from common_part to llama_kv_self_seq_rm
processMediaAlign(s, r) ==
    LET n0 == common_part(s.embd, r.tokens)
        n1 == BoundaryAdjusted(n0, r.chunk_pos)
        n2 == HashAdjusted(n1, r, s.mtmd_bitmap_past_hashes)
    IN  [s EXCEPT !.n_past = n2,
                  !.kv = CacheOf(s, llama_kv_self_seq_rm(s.kv, n2, -1))]

\* The chunk the evaluation loop evaluates next, looking from chunk i on
\* (0: none): chunks that start before n_past are passed over
PendingChunk(s, chunk_pos, i) ==
    LET todo == {j \in i..Len(chunk_pos) : chunk_pos[j] >= s.n_past}
    IN  IF todo = {} THEN 0 ELSE CHOOSE j \in todo : \A k \in todo : j <= k

\* mtmd_helper_eval_chunk_single answers 0 for chunk c
EvalChunkOk(s, c) ==
    [s EXCEPT !.kv = CacheOf(s, KvDecode(@, s.n_past, ChunkCells(c))),
              !.n_past = @ + c.n_pos]

\* processMedia after the evaluation loop
processMediaFinish(s, r) ==
    LET s1 == IF s.n_past = Len(r.tokens) /\ s.n_past > 0
                 /\ r.tokens[s.n_past] # LLAMA_TOKEN_NULL
              THEN [s EXCEPT !.n_past = @ - 1]
              ELSE s
    IN  [s1 EXCEPT !.embd = r.tokens, !.mtmd_bitmap_past_hashes = r.bitmap_hashes]

\* loadPrompt(media_paths) after processMedia returned
loadPromptMediaFinish(s) ==
    LET s1 == ClampKeep([s EXCEPT !.num_prompt_tokens = Len(s.embd)])
        s2 == IF s1.n_past = s1.num_prompt_tokens /\ s1.n_past > 0
              THEN [s1 EXCEPT !.n_past = @ - 1]
              ELSE s1
    IN  [s2 EXCEPT !.has_next_token = TRUE]

\* What the catch block of the caller does to the session: the primitive
\* prints the message, cactus_multimodal_completion_c also marks the session
Caught(s, drv) ==
    IF drv = "multimodal_completion_c"
    THEN [s EXCEPT !.is_predicting = FALSE, !.is_interrupted = TRUE]
    ELSE s

\* The evaluation loop of processMedia from chunk i on, up to the next call of
\* mtmd_helper_eval_chunk_single; when no chunk is left, the rest of
\* processMedia and of loadPrompt(media_paths), and the return to the driver
MediaContinue(s, m, i, drv) ==
    LET j == PendingChunk(s, m.chunk_pos, i)
    IN  IF j = 0
        THEN /\ ctx' = loadPromptMediaFinish(processMediaFinish(s, m))
             /\ media' = [m EXCEPT !.i = Len(m.chunk_pos) + 1, !.outcome = "loaded"]
             /\ pc' = IF drv = "multimodal_completion_c" THEN "loop" ELSE "idle"
        ELSE /\ ctx' = s
             /\ media' = [m EXCEPT !.i = j, !.outcome = "running"]
             /\ pc' = "media"

\* A load that aligns n_past and trims the cache before it looks at the media
LoadPromptMediaAlignFirst(s, turn, drv, before) ==
    LET r == tokenizeWithMedia(turn)
        m == [tokens |-> r.tokens, chunks |-> turn, chunk_pos |-> r.chunk_pos,
              chunk_pos_media |-> r.chunk_pos_media, bitmap_hashes |-> r.bitmap_hashes,
              aligned |-> 0, evaluated |-> 0, i |-> 1, outcome |-> "running",
              before |-> before]
        a == processMediaAlign(s, r)
    IN  IF ~r.ok
        THEN /\ ctx' = Caught(a, drv)
             /\ media' = [m EXCEPT !.outcome = "unsupported"]
             /\ pc' = "idle"
        ELSE IF Len(r.tokens) >= s.n_ctx
        THEN /\ ctx' = Caught([s EXCEPT !.context_full = TRUE], drv)
             /\ media' = [m EXCEPT !.outcome = "context_full"]
             /\ pc' = "idle"
        ELSE MediaContinue(a, [m EXCEPT !.aligned = a.n_past], 1, drv)

\* loadPrompt(media_paths) on the session s, called by driver drv; before is
\* the session as the driver found it
LoadPromptMedia(s, turn, drv, before) ==
    LET r == tokenizeWithMedia(turn)
        m == [tokens |-> r.tokens, chunks |-> turn, chunk_pos |-> r.chunk_pos,
              chunk_pos_media |-> r.chunk_pos_media, bitmap_hashes |-> r.bitmap_hashes,
              aligned |-> 0, evaluated |-> 0, i |-> 1, outcome |-> "running",
              before |-> before]
    IN  IF ~s.has_multimodal
        THEN /\ ctx' = Caught(s, drv)
             /\ media' = [m EXCEPT !.outcome = "not_enabled"]
             /\ pc' = "idle"
        ELSE IF ~r.ok
        THEN /\ ctx' = Caught(s, drv)
             /\ media' = [m EXCEPT !.outcome = "unsupported"]
             /\ pc' = "idle"
        ELSE IF Len(r.tokens) >= s.n_ctx
        THEN /\ ctx' = Caught([s EXCEPT !.context_full = TRUE], drv)
             /\ media' = [m EXCEPT !.outcome = "context_full"]
             /\ pc' = "idle"
        ELSE LET a == processMediaAlign(s, r)
             IN  MediaContinue(a, [m EXCEPT !.aligned = a.n_past], 1, drv)

\* cactus_load_prompt_with_media_c with at least one media path
cactus_load_prompt_with_media_c(turn) ==
    /\ pc = "idle"
    /\ calls < MaxCalls
    /\ \E i \in 1..Len(turn) : turn[i].type = "media"
    /\ LoadPromptMedia(ctx, turn, "load_prompt_with_media_c", ctx)
    /\ driver' = "load_prompt_with_media_c"
    /\ calls' = calls + 1
    /\ result' = NoResult
    /\ UNCHANGED probe

\* cactus_multimodal_completion_c with at least one media path, up to its
\* while loop
cactus_multimodal_completion_c(turn, n_predict) ==
    /\ pc = "idle"
    /\ calls < MaxCalls
    /\ \E i \in 1..Len(turn) : turn[i].type = "media"
    /\ LET s1 == [rewind(ctx) EXCEPT !.n_predict = n_predict, !.antiprompt = <<>>]
       IN  LoadPromptMedia(beginCompletion(s1), turn, "multimodal_completion_c", ctx)
    /\ driver' = "multimodal_completion_c"
    /\ calls' = calls + 1
    /\ result' = NoResult
    /\ UNCHANGED probe

\* cactus_tokenize_with_media_c with at least one media path: the result
\* handed to the caller is kept in media
cactus_tokenize_with_media_c(turn) ==
    /\ pc = "idle"
    /\ \E i \in 1..Len(turn) : turn[i].type = "media"
    /\ LET r == tokenize(turn)
       IN  media' = IF ~ctx.has_multimodal
                    THEN [NoMedia EXCEPT !.chunks = turn, !.outcome = "not_enabled"]
                    ELSE [NoMedia EXCEPT !.tokens = r.tokens, !.chunks = turn,
                                         !.chunk_pos = r.chunk_pos,
                                         !.chunk_pos_media = r.chunk_pos_media,
                                         !.bitmap_hashes = r.bitmap_hashes,
                                         !.outcome = "tokenized"]
    /\ UNCHANGED <<ctx, pc, driver, result, calls, probe>>

\* One call of mtmd_helper_eval_chunk_single in processMedia; ok is its answer
EvalMediaChunk(ok) ==
    /\ pc = "media"
    /\ IF ok
       THEN MediaContinue(EvalChunkOk(ctx, media.chunks[media.i]),
                          [media EXCEPT !.evaluated = @ + 1], media.i + 1, driver)
       ELSE /\ ctx' = Caught(ctx, driver)
            /\ media' = [media EXCEPT !.outcome = "eval_failed"]
            /\ pc' = "idle"
    /\ UNCHANGED <<driver, result, calls, probe>>

-----------------------------------------------------------------------------
(* Spec: the session under the drivers *)

\* The sessions checked: the context size, the n_keep of the params (0 unless
\* the embedder sets it, negative for "keep the whole prompt") and n_batch
Configs == { <<8, 0, 4>>, <<8, 2, 4>>, <<8, -1, 4>>, <<16, 4, 4>> }
PromptLens(nctx) == {2, nctx - 1, nctx + 2}
Predicts == {-1, 0, 2}
SampleSet == {EosToken, 97}

Init ==
    /\ ctx \in {NewContext(c[1], c[2], c[3]) : c \in Configs}
    /\ pc = "idle"
    /\ driver = "none"
    /\ result = NoResult
    /\ calls = 0
    /\ probe = NoProbe
    /\ media = NoMedia

Next ==
    \/ \E plen \in PromptLens(ctx.n_ctx), np \in Predicts : cactus_completion_c(plen, np, <<>>)
    \/ \E ulen \in PromptLens(ctx.n_ctx), np \in Predicts : continueConversation(ulen, np)
    \/ StepBegin
    \/ LoopExit
    \/ \E ok \in BOOLEAN : DecodeChunk(ok)
    \/ \E t \in SampleSet, cb \in BOOLEAN : SampleStep(t, cb)
    \/ cactus_stop_completion_c
    \/ cactus_rewind_c

Spec == Init /\ [][Next]_vars

-----------------------------------------------------------------------------
(* SpecText: one completion episode over a byte-level vocabulary *)

\* 'a', 'b', a 2-byte lead, a continuation byte, a 3-byte and a 4-byte lead
TextSampleSet == {EosToken, 97, 98, 195, 169, 226, 240}
TextStops == { <<>>, << <<97, 98>> >> }
TextPredicts == {-1, 1, 2}

InitText ==
    /\ ctx = NewContext(8, 0, 4)
    /\ pc = "idle"
    /\ driver = "none"
    /\ result = NoResult
    /\ calls = 0
    /\ probe = NoProbe
    /\ media = NoMedia

NextText ==
    \/ \E np \in TextPredicts, stops \in TextStops :
            calls = 0 /\ cactus_completion_c(2, np, stops)
    \/ StepBegin
    \/ LoopExit
    \/ \E ok \in BOOLEAN : DecodeChunk(ok)
    \/ \E t \in TextSampleSet, cb \in BOOLEAN : SampleStep(t, cb)
    \/ cactus_stop_completion_c

SpecText == InitText /\ [][NextText]_vars

-----------------------------------------------------------------------------
(* SpecGuide: episodes with guide tokens installed between driver calls *)

\* a newline, a control token, end of generation, 'a'
GuideSampleSet == {NewlineToken, ControlToken, EosToken, 97}
\* guide queues: 'x' 'y'; newline 'y'
GuideQueues == { <<120, 121>>, <<NewlineToken, 121>> }

InitGuide ==
    /\ ctx = NewContext(8, 0, 4)
    /\ pc = "idle"
    /\ driver = "none"
    /\ result = NoResult
    /\ calls = 0
    /\ probe = NoProbe
    /\ media = NoMedia

NextGuide ==
    \/ \E g \in GuideQueues : ctx.guide_tokens # g /\ cactus_set_guide_tokens_c(g)
    \/ cactus_completion_c(2, -1, <<>>)
    \/ continueConversation(2, -1)
    \/ StepBegin
    \/ LoopExit
    \/ DecodeChunk(TRUE)
    \/ \E t \in GuideSampleSet : SampleStep(t, TRUE)

SpecGuide == InitGuide /\ [][NextGuide]_vars

-----------------------------------------------------------------------------
(* SpecMedia: turns with media, loaded through the primitive and through
   cactus_multimodal_completion_c; the backend cache is followed *)

\* text, image A, text, image B, text
TurnAB(h) == << TextChunk(<<11, 12>>), MediaChunk("file", 1, 2), TextChunk(<<13>>),
                MediaChunk("file", h, 2), TextChunk(<<14>>) >>
\* text, image A and image B side by side, text
TurnAdjacent(h) == << TextChunk(<<11>>), MediaChunk("file", 1, 2),
                      MediaChunk("file", h, 2), TextChunk(<<14>>) >>
\* a turn that ends with its media item
TurnEndsWithMedia == << TextChunk(<<11, 12>>), MediaChunk("data_base64", 1, 2) >>
\* a turn of n_ctx tokens
TurnLong == << TextChunk(<<11, 12, 13, 14, 15, 16>>), MediaChunk("file", 1, 4) >>
\* a turn whose media item cannot be loaded
TurnBad(src) == << TextChunk(<<11, 12>>), MediaChunk(src, 1, 2) >>

MediaTurns ==
    {TurnAB(2), TurnAB(3), TurnAdjacent(2), TurnAdjacent(3), TurnEndsWithMedia, TurnLong}
    \cup {TurnBad(src) : src \in UnsupportedSources}

InitMedia ==
    /\ ctx = [NewContext(10, 0, 4) EXCEPT !.cache_modelled = TRUE]
    /\ pc = "idle"
    /\ driver = "none"
    /\ result = NoResult
    /\ calls = 0
    /\ probe = NoProbe
    /\ media = NoMedia

NextMedia ==
    \/ \E turn \in MediaTurns : cactus_load_prompt_with_media_c(turn)
    \/ \E turn \in MediaTurns : cactus_multimodal_completion_c(turn, 1)
    \/ \E ok \in BOOLEAN : EvalMediaChunk(ok)
    \/ StepBegin
    \/ LoopExit
    \/ \E ok \in BOOLEAN : DecodeChunk(ok)
    \/ \E t \in SampleSet, cb \in BOOLEAN : SampleStep(t, cb)
    \/ cactus_stop_completion_c

SpecMedia == InitMedia /\ [][NextMedia]_vars

-----------------------------------------------------------------------------
(* SpecAlign: turns that differ from the previous one inside a text chunk,
   in a media item or in the size of a media item, loaded one after the other
   through cactus_load_prompt_with_media_c *)

\* text, image, text, image, text: the first and the last text in two variants
\* that share their first token, each image in two variants of two positions
AlignTurn(a, h1, h2, c) ==
    << TextChunk(<<11, a>>), MediaChunk("file", h1, 2), TextChunk(<<13, 14>>),
       MediaChunk("file", h2, 2), TextChunk(<<15, c>>) >>
\* the first image replaced by one of three positions
AlignTurnWide == << TextChunk(<<11, 12>>), MediaChunk("file", 3, 3), TextChunk(<<13, 14>>),
                   MediaChunk("file", 1, 2), TextChunk(<<15, 16>>) >>
\* another text after the first image
AlignTurnOtherText == << TextChunk(<<11, 12>>), MediaChunk("file", 1, 2), TextChunk(<<23>>) >>

AlignTurns ==
    {AlignTurn(a, h1, h2, c) : a \in {12, 19}, h1 \in {1, 2}, h2 \in {1, 2}, c \in {16, 17}}
    \cup {AlignTurnWide, AlignTurnOtherText}

InitAlign ==
    /\ ctx = NewContext(12, 0, 4)
    /\ pc = "idle"
    /\ driver = "none"
    /\ result = NoResult
    /\ calls = 0
    /\ probe = NoProbe
    /\ media = NoMedia

NextAlign ==
    \/ \E turn \in AlignTurns : cactus_load_prompt_with_media_c(turn)
    \/ \E ok \in BOOLEAN : EvalMediaChunk(ok)

SpecAlign == InitAlign /\ [][NextAlign]_vars

-----------------------------------------------------------------------------
(* SpecTokenize: turns tokenized through cactus_tokenize_with_media_c and
   through the prompt load *)

TokenizeTurns == {TurnAB(2), TurnAdjacent(2), TurnEndsWithMedia, AlignTurnWide}

InitTokenize ==
    /\ ctx = NewContext(12, 0, 4)
    /\ pc = "idle"
    /\ driver = "none"
    /\ result = NoResult
    /\ calls = 0
    /\ probe = NoProbe
    /\ media = NoMedia

NextTokenize ==
    \/ \E turn \in TokenizeTurns : cactus_tokenize_with_media_c(turn)
    \/ \E turn \in TokenizeTurns : cactus_load_prompt_with_media_c(turn)
    \/ \E ok \in BOOLEAN : EvalMediaChunk(ok)

SpecTokenize == InitTokenize /\ [][NextTokenize]_vars

-----------------------------------------------------------------------------
(* SpecKeep: sessions whose embedder set params.n_keep = -1, "keep the whole
   prompt", before the first completion *)

KeepConfigs == { <<4, -1, 4>>, <<8, -1, 4>>, <<16, -1, 4>> }
KeepPromptLens == {2, 5, 10}

InitKeep ==
    /\ ctx \in {NewContext(c[1], c[2], c[3]) : c \in KeepConfigs}
    /\ pc = "idle"
    /\ driver = "none"
    /\ result = NoResult
    /\ calls = 0
    /\ probe = NoProbe
    /\ media = NoMedia

NextKeep ==
    \/ \E plen \in KeepPromptLens : cactus_completion_c(plen, 1, <<>>)
    \/ \E ulen \in KeepPromptLens : continueConversation(ulen, 1)
    \/ StepBegin
    \/ LoopExit
    \/ \E ok \in BOOLEAN : DecodeChunk(ok)
    \/ \E t \in SampleSet : SampleStep(t, TRUE)
    \/ cactus_rewind_c

SpecKeep == InitKeep /\ [][NextKeep]_vars

-----------------------------------------------------------------------------
(* SpecSmall: sessions whose context is smaller than their prompts *)

\* n_ctx 0, 1 and 2 leave truncatePrompt a block size of 0, 0 and 1
SmallConfigs == { <<0, 0, 4>>, <<1, 0, 4>>, <<2, 0, 4>>, <<6, 2, 4>> }
SmallPromptLens == {1, 3, 7}

InitSmall ==
    /\ ctx \in {NewContext(c[1], c[2], c[3]) : c \in SmallConfigs}
    /\ pc = "idle"
    /\ driver = "none"
    /\ result = NoResult
    /\ calls = 0
    /\ probe = NoProbe
    /\ media = NoMedia

NextSmall ==
    \/ \E plen \in SmallPromptLens, np \in {-1, 1} : cactus_completion_c(plen, np, <<>>)
    \/ \E ulen \in SmallPromptLens : continueConversation(ulen, -1)
    \/ \E turn \in {TurnEndsWithMedia, TurnLong} : cactus_load_prompt_with_media_c(turn)
    \/ \E ok \in BOOLEAN : EvalMediaChunk(ok)
    \/ StepBegin
    \/ LoopExit
    \/ \E ok \in BOOLEAN : DecodeChunk(ok)
    \/ \E t \in SampleSet : SampleStep(t, TRUE)

SpecSmall == InitSmall /\ [][NextSmall]_vars

-----------------------------------------------------------------------------
(* SpecCache: text and media loads, steps and shifts with the backend cache
   followed *)

CachePromptLens == {2, 7, 10}

InitCache ==
    /\ ctx = [NewContext(8, 2, 4) EXCEPT !.cache_modelled = TRUE]
    /\ pc = "idle"
    /\ driver = "none"
    /\ result = NoResult
    /\ calls = 0
    /\ probe = NoProbe
    /\ media = NoMedia

NextCache ==
    \/ \E plen \in CachePromptLens : cactus_completion_c(plen, -1, <<>>)
    \/ \E ulen \in CachePromptLens : continueConversation(ulen, -1)
    \/ \E turn \in {TurnEndsWithMedia, TurnAdjacent(2)} : cactus_load_prompt_with_media_c(turn)
    \/ \E ok \in BOOLEAN : EvalMediaChunk(ok)
    \/ StepBegin
    \/ LoopExit
    \/ \E ok \in BOOLEAN : DecodeChunk(ok)
    \/ \E t \in SampleSet : SampleStep(t, TRUE)
    \/ cactus_rewind_c

SpecCache == InitCache /\ [][NextCache]_vars

-----------------------------------------------------------------------------
(* SpecBounded: episodes with a bounded n_predict in which every llama_decode
   succeeds, nobody interrupts and every token piece is complete UTF-8 *)

BoundedPredicts == {1, 2}
BoundedPromptLens == {2, 7}

InitBounded ==
    /\ ctx = NewContext(8, 2, 4)
    /\ pc = "idle"
    /\ driver = "none"
    /\ result = NoResult
    /\ calls = 0
    /\ probe = NoProbe
    /\ media = NoMedia

NextBounded ==
    \/ \E plen \in BoundedPromptLens, np \in BoundedPredicts :
            cactus_completion_c(plen, np, <<>>)
    \/ \E ulen \in BoundedPromptLens, np \in BoundedPredicts :
            continueConversation(ulen, np)
    \/ StepBegin
    \/ LoopExit
    \/ DecodeChunk(TRUE)
    \/ \E t \in SampleSet : SampleStep(t, TRUE)

SpecBounded == InitBounded /\ [][NextBounded]_vars

-----------------------------------------------------------------------------
(* SpecStop: the stop matcher called on its own *)

MaxTextLen == 3        \* length of the texts over {a, b} handed to the matcher

RECURSIVE SeqsUpTo(_, _)
SeqsUpTo(S, n) ==
    IF n = 0 THEN {<<>>}
    ELSE LET shorter == SeqsUpTo(S, n - 1)
         IN  shorter \cup {Append(q, x) : q \in {r \in shorter : Len(r) = n - 1}, x \in S}

StrSTOP == <<83, 84, 79, 80>>                                  \* "STOP"
StrBanSTOPana == <<98, 97, 110, 83, 84, 79, 80, 97, 110, 97>>  \* "banSTOPana"

StopTexts == SeqsUpTo({97, 98}, MaxTextLen) \cup {StrBanSTOPana, StrSTOP}
StopSets == { << StrSTOP >>, << <<97, 98>> >>, << <<98>>, <<97, 98>> >>,
              << <<>>, <<98, 97>>, <<97>> >>, << <<97, 98>>, <<97>> >>,
              << <<97, 98, 97>> >> }
LastTokenSizes == {0, 1, 3}

InitStop ==
    /\ \E stops \in StopSets, h \in BOOLEAN :
          ctx = [NewContext(8, 0, 4) EXCEPT !.antiprompt = stops, !.has_next_token = h]
    /\ pc = "idle"
    /\ driver = "none"
    /\ result = NoResult
    /\ calls = 0
    /\ probe = NoProbe
    /\ media = NoMedia

NextStop ==
    \E text \in StopTexts, n \in LastTokenSizes, type \in {STOP_FULL, STOP_PARTIAL} :
        cactus_find_stopping_strings_c(text, n, type)

SpecStop == InitStop /\ [][NextStop]_vars

-----------------------------------------------------------------------------
(* SpecFeed: the stop matcher called in full mode after every token appended
   to the text, with last_token_size the length of that token's piece *)

MaxFeedLen == 5        \* length up to which the text grows
FeedPieces == { <<97>>, <<98>>, <<97, 98>>, <<98, 98, 97>> }

InitFeed ==
    /\ \E stops \in StopSets :
          ctx = [NewContext(8, 0, 4) EXCEPT !.antiprompt = stops, !.has_next_token = TRUE]
    /\ pc = "idle"
    /\ driver = "none"
    /\ result = NoResult
    /\ calls = 0
    /\ probe = NoProbe
    /\ media = NoMedia

NextFeed ==
    \E piece \in FeedPieces :
        /\ Len(probe.text) + Len(piece) <= MaxFeedLen
        /\ cactus_find_stopping_strings_c(probe.text \o piece, Len(piece), STOP_FULL)

SpecFeed == InitFeed /\ [][NextFeed]_vars

-----------------------------------------------------------------------------
(* Properties of the token window, checked under Spec *)

\* A step (doCompletion) has returned to the driver
StepReturned == pc \in {"loop", "idle"} /\ result.outcome \in {"token", "decode_failed", "interrupted"}

\* C1: in the state each step returns, n_past <= tokens.length < n_ctx.
C1_WindowAfterStep ==
    StepReturned => (ctx.n_past <= Len(ctx.embd) /\ Len(ctx.embd) < ctx.n_ctx)

\* C2: n_past <= tokens.length in every reachable state.
C2_PastWithinTokens == ctx.n_past <= Len(ctx.embd)

\* C3: whenever tokens are about to be fed to the backend decode,
\* tokens.length < n_ctx.
C3_DecodeInsideWindow ==
    (pc = "decode" /\ ctx.n_past < Len(ctx.embd)) => Len(ctx.embd) < ctx.n_ctx

\* The step is a driver call that runs loadPrompt
LoadStep ==
    /\ pc = "idle"
    /\ calls' = calls + 1
    /\ driver' = "completion_c" \/ ~ctx.conversation_active \/ ctx.embd = <<>>

\* C6: loadPrompt on a prompt (the tokens already held followed by the new
\* ones) of length >= n_ctx leaves the first n_keep tokens followed by a suffix
\* of the prompt, a positive whole number of blocks of (n_ctx - n_keep)/2 tokens
\* having been removed right after the first n_keep; truncated is set and the
\* length is below n_ctx.  A shorter prompt is kept whole.
C6_TruncateKeepsHeadAndTail ==
    [][ LoadStep =>
          \E plen \in PromptLens(ctx.n_ctx) :
             LET orig == ctx.embd \o PromptTokens(calls + 1, plen)
                 k == ctx'.n_keep
                 block == (ctx.n_ctx - k) \div 2
                 erased == Len(orig) - Len(ctx'.embd)
             IN  IF Len(orig) >= ctx.n_ctx
                 THEN /\ ctx'.truncated
                      /\ Len(ctx'.embd) < ctx.n_ctx
                      /\ Len(ctx'.embd) > k
                      /\ erased > 0 /\ erased % block = 0
                      /\ ctx'.embd = SubSeq(orig, 1, k) \o SubSeq(orig, k + erased + 1, Len(orig))
                      /\ pc' = "loop"
                 ELSE ctx'.embd = orig /\ ~ctx'.truncated
      ]_vars

\* C6 witness: the 10-token prompt with n_ctx = 8 and n_keep = 2 has been loaded
\* and truncated to its first two tokens and its last five.
C6_Witness ==
    /\ pc = "loop" /\ result = NoResult /\ calls = 1
    /\ ctx.n_ctx = 8 /\ ctx.n_keep = 2 /\ ctx.truncated
    /\ ctx.embd = SubSeq(PromptTokens(1, 10), 1, 2) \o SubSeq(PromptTokens(1, 10), 6, 10)

\* C7: when the window was filled to n_ctx by a sampled token, the shift at the
\* start of the next step leaves tokens.length < n_ctx and the first n_keep
\* tokens unchanged.
C7_ShiftKeepsHead ==
    [][ (pc = "loop" /\ pc' = "decode" /\ result.outcome = "token"
            /\ Len(ctx.embd) = ctx.n_ctx)
        => /\ result'.shifted
           /\ Len(ctx'.embd) < ctx.n_ctx
           /\ ctx'.n_keep = ctx.n_keep
           /\ SubSeq(ctx'.embd, 1, ctx.n_keep) = SubSeq(ctx.embd, 1, ctx.n_keep)
      ]_vars

\* C7 witness: with n_ctx = 16 and n_keep = 4 a step has just shifted the window
C7_Witness ==
    /\ pc = "decode" /\ result.shifted
    /\ ctx.n_ctx = 16 /\ ctx.n_keep = 4
    /\ Len(ctx.embd) < 16 /\ ctx.generated_text # <<>>

\* C9: a step in which llama_decode fails returns no token to the driver, which
\* returns; has_next_token becomes false and nothing else of the session
\* changes (tokens, n_past, generated_text), and every chunk that decoded
\* advanced n_past by exactly its size.
C9_DecodeFailureLosesNothing ==
    [][ pc = "decode" =>
          /\ result'.outcome = "decode_failed" =>
                /\ ctx' = [ctx EXCEPT !.has_next_token = FALSE, !.is_predicting = FALSE]
                /\ result'.tok = -1
                /\ pc' = "idle"
          /\ (result'.outcome \in {"running", "interrupted"} /\ ctx'.n_past # ctx.n_past) =>
                /\ ctx'.n_past = ctx.n_past + Min(ctx.n_batch, Len(ctx.embd) - ctx.n_past)
                /\ ctx'.generated_text = ctx.generated_text
      ]_vars

\* C9 witness: a decode failed after part of the text had been generated
C9_Witness ==
    /\ pc = "idle" /\ result.outcome = "decode_failed"
    /\ ~ctx.has_next_token
    /\ ctx.generated_text # <<>>
    /\ ctx.n_past < Len(ctx.embd)

\* C10: is_interrupted can be set at any moment of a generation in flight; once
\* it is set it stays set until the driver returns, the loop starts no further
\* step, and the step in flight ends at its next chunk or sample.
C10_InterruptionStopsLoop ==
    [][ /\ (pc \in {"loop", "decode"} /\ ~ctx.is_interrupted) => ENABLED cactus_stop_completion_c
        /\ (pc \in {"loop", "decode"} /\ ctx.is_interrupted) =>
              /\ ctx'.is_interrupted
              /\ pc = "loop" => (pc' = "idle" /\ ctx'.embd = ctx.embd /\ ctx'.n_past = ctx.n_past)
              /\ pc = "decode" => pc' \in {"loop", "idle"}
      ]_vars

\* C10 witness: the driver has returned after an interruption that came while
\* the prompt was being decoded
C10_Witness ==
    /\ pc = "idle" /\ ctx.is_interrupted
    /\ result.outcome = "interrupted"
    /\ ~ctx.has_next_token /\ ctx.n_past > 0

-----------------------------------------------------------------------------
(* Properties of the generated text, checked under SpecText *)

\* The 0-based positions at which word starts in text
Occurrences(text, word) ==
    {q \in 0..(Len(text) - Len(word)) : SubSeq(text, q + 1, q + Len(word)) = word}

\* The non-empty stop strings of the session
StopWords(s) == {s.antiprompt[k] : k \in 1..Len(s.antiprompt)} \ {<<>>}

\* C4: in a completion episode with stop strings, once a step has left
\* generated_text containing one of them the episode has ended with
\* stopped_word, stopping_word set to a stop string and has_next_token false.
C4_StopStringEndsEpisode ==
    (/\ driver = "completion_c" /\ result.outcome = "token"
     /\ \E w \in StopWords(ctx) : Occurrences(ctx.generated_text, w) # {})
    => (/\ ctx.stopped_word
        /\ ctx.stopping_word \in StopWords(ctx)
        /\ ~ctx.has_next_token)

\* The number of bytes of the UTF-8 sequence that lead byte b opens
Utf8Length(b) == IF IsLead2(b) THEN 2 ELSE IF IsLead3(b) THEN 3 ELSE IF IsLead4(b) THEN 4 ELSE 1

\* text ends with a lead byte followed by fewer continuation bytes than it needs
EndsIncomplete(text) ==
    \E k \in 1..3 :
        /\ Len(text) >= k
        /\ Utf8Length(text[Len(text) - k + 1]) > k
        /\ \A j \in (Len(text) - k + 2)..Len(text) : IsContinuation(text[j])

-----------------------------------------------------------------------------
(* Properties of the stop matcher, checked under SpecStop *)

\* The position from which the matcher searches text for word
WindowStart(text, word, last_token_size) ==
    Max(0, Len(text) - (Len(word) + last_token_size))

\* C8 as stated: in full mode, when a stop string occurs in the text the
\* matcher reports an index at which that string starts and sets stopped_word,
\* stopping_word to it and has_next_token to false; when none occurs it
\* reports no match and leaves the three fields unchanged.
C8_MatchAnywhere ==
    [][ probe'.type = STOP_FULL =>
          LET text == probe'.text
              matched == {w \in StopWords(ctx) : Occurrences(text, w) # {}}
          IN  IF matched # {}
              THEN \E w \in matched :
                      /\ probe'.pos \in Occurrences(text, w)
                      /\ ctx'.stopped_word /\ ctx'.stopping_word = w
                      /\ ~ctx'.has_next_token
              ELSE /\ probe'.pos = npos
                   /\ ctx'.stopped_word = ctx.stopped_word
                   /\ ctx'.stopping_word = ctx.stopping_word
                   /\ ctx'.has_next_token = ctx.has_next_token
      ]_vars

\* C8 amended: in full mode, when a stop string w starts in the text at or after
\* max(0, len(text) - (len(w) + last_token_size)), the matcher reports the
\* smallest such index over the stop strings and sets stopped_word,
\* stopping_word to a stop string that starts there and has_next_token to
\* false; when no stop string starts in its window it reports no match and
\* leaves the three fields unchanged.
C8_MatchInWindow ==
    [][ probe'.type = STOP_FULL =>
          LET text == probe'.text
              hits(w) == {q \in Occurrences(text, w) :
                             q >= WindowStart(text, w, probe'.last_token_size)}
              all == UNION {hits(w) : w \in StopWords(ctx)}
          IN  IF all # {}
              THEN /\ probe'.pos \in all
                   /\ \A q \in all : probe'.pos <= q
                   /\ ctx'.stopping_word \in StopWords(ctx)
                   /\ probe'.pos \in hits(ctx'.stopping_word)
                   /\ ctx'.stopped_word
                   /\ ~ctx'.has_next_token
              ELSE /\ probe'.pos = npos
                   /\ ctx'.stopped_word = ctx.stopped_word
                   /\ ctx'.stopping_word = ctx.stopping_word
                   /\ ctx'.has_next_token = ctx.has_next_token
      ]_vars

\* C8 witness: "STOP" was found at index 3 of "banSTOPana"
C8_Witness ==
    /\ probe.type = STOP_FULL /\ probe.text = StrBanSTOPana /\ probe.pos = 3
    /\ ctx.stopped_word /\ ctx.stopping_word = StrSTOP /\ ~ctx.has_next_token

-----------------------------------------------------------------------------
(* Properties of rewind, checked under Spec *)

\* The step is cactus_rewind_c
RewindStep ==
    /\ pc = "idle" /\ pc' = "idle"
    /\ calls' = calls
    /\ ctx' # ctx
    /\ ~ctx'.is_interrupted

\* C11: rewind leaves every generation status flag false (has_next_token,
\* is_interrupted, stopped_eos, stopped_word, stopped_limit, truncated,
\* context_full, incomplete), stopping_word and generated_text empty,
\* n_past = 0, and tokens and guide_tokens empty.
C11_RewindResetsEpisode ==
    [][ RewindStep =>
          /\ ~ctx'.has_next_token /\ ~ctx'.is_interrupted
          /\ ~ctx'.stopped_eos /\ ~ctx'.stopped_word /\ ~ctx'.stopped_limit
          /\ ~ctx'.truncated /\ ~ctx'.context_full /\ ~ctx'.incomplete
          /\ ctx'.stopping_word = <<>> /\ ctx'.generated_text = <<>>
          /\ ctx'.n_past = 0
          /\ ctx'.embd = <<>> /\ ctx'.guide_tokens = <<>>
      ]_vars

-----------------------------------------------------------------------------
(* Properties of the guide tokens, checked under SpecGuide *)

\* The step samples a token (nextToken reaches its sampling block)
SamplingStep == pc = "decode" /\ result'.outcome = "token" /\ ctx.n_predict # 0

\* The sampler's proposal is neither a control nor an end-of-generation token
PlainProposal(t) == ~llama_vocab_is_control(t) /\ ~llama_vocab_is_eog(t)

\* C12 as stated: with the queue [A, B, ...] as it was set, a step whose
\* proposal is neither control nor end-of-generation emits A and removes it;
\* after an emitted newline-class token the next such step emits the front of
\* the queue; the queue is only ever consumed from the front, by emitting.
C12_GuideOverridesProposal ==
    [][ SamplingStep =>
          LET q == ctx.guide_tokens
              after_newline == ctx.generated_text # <<>> /\ ctx.embd[Len(ctx.embd)] = NewlineToken
          IN  /\ ((q \in GuideQueues \/ (q # <<>> /\ after_newline))
                    /\ PlainProposal(result'.proposed))
                 => (result'.tok = Head(q) /\ ctx'.guide_tokens = Tail(q))
              /\ ctx'.guide_tokens # q
                 => (q # <<>> /\ ctx'.guide_tokens = Tail(q) /\ result'.tok = Head(q))
      ]_vars

\* C12 amended: a step taken with the latch next_token_uses_guide_token set, a
\* non-empty queue and a proposal that is neither control nor
\* end-of-generation emits the front of the queue and removes it; any other
\* step emits the proposal and leaves the queue alone; after the step the latch
\* is set exactly when the emitted token is the newline token.
C12_GuideOverridesWhenLatched ==
    [][ SamplingStep =>
          LET q == ctx.guide_tokens
          IN  /\ IF /\ ctx.next_token_uses_guide_token
                    /\ q # <<>>
                    /\ PlainProposal(result'.proposed)
                 THEN result'.tok = Head(q) /\ ctx'.guide_tokens = Tail(q)
                 ELSE result'.tok = result'.proposed /\ ctx'.guide_tokens = q
              /\ ctx'.next_token_uses_guide_token = (result'.tok = NewlineToken)
              /\ ctx'.embd = Append(ctx.embd, result'.tok)
      ]_vars

\* C12 witness: with the queue [newline, 'y'] the first step emitted the newline
\* in place of the proposal and the next step emitted 'y' in place of 'a'
C12_Witness ==
    /\ result.outcome = "token" /\ result.tok = 121 /\ result.proposed = 97
    /\ ctx.guide_tokens = <<>>
    /\ Len(ctx.embd) >= 2
    /\ ctx.embd[Len(ctx.embd) - 1] = NewlineToken
    /\ ctx.embd[Len(ctx.embd)] = 121
    /\ ~ctx.next_token_uses_guide_token

-----------------------------------------------------------------------------
(* Properties of the stop reasons, checked under Spec *)

\* C13: in no reachable state is stopped_limit true together with stopped_eos
\* or with stopped_word, and stopped_limit is only set by a step of a bounded
\* episode that ends with n_remain = 0.
C13_LimitExcludesEosAndWord ==
    /\ ~(ctx.stopped_limit /\ (ctx.stopped_eos \/ ctx.stopped_word))
    /\ (StepReturned /\ ctx.stopped_limit) => (ctx.n_predict # -1 /\ ctx.n_remain = 0)

-----------------------------------------------------------------------------
(* Properties of the token budget, checked under SpecText *)

\* C14: in a bounded episode, when the token that uses up the budget leaves
\* generated_text ending in an incomplete multi-byte sequence, has_next_token
\* is true again and n_remain is back to one, so the episode goes on; and
\* stopped_limit is set only by a step after which the text is complete.
C14_BudgetExtendsOnIncomplete ==
    [][ (pc = "decode" /\ result'.outcome = "token" /\ ctx.n_predict \notin {-1, 0}) =>
          /\ (ctx.n_remain = 1 /\ EndsIncomplete(ctx'.generated_text)) =>
                /\ ctx'.has_next_token
                /\ ctx'.n_remain = 1
                /\ ctx'.incomplete
                /\ (pc' = "loop" /\ ~ctx'.is_interrupted) => LoopCondition(ctx')
          /\ ctx'.stopped_limit =>
                (~EndsIncomplete(ctx'.generated_text) /\ ctx'.n_remain = 0)
      ]_vars

\* C14 witness: a budget of one token was used up by a 3-byte lead; the episode
\* went on for its two continuation bytes and only then stopped on the limit
C14_Witness ==
    /\ ctx.n_predict = 1 /\ ctx.generated_text = <<226, 169, 169>>
    /\ ctx.stopped_limit /\ ~ctx.has_next_token /\ ctx.n_remain = 0
    /\ result.outcome = "token"

-----------------------------------------------------------------------------
(* Properties of multimodal prompt loading, checked under SpecMedia *)

\* A driver call with media returns: the step of the call itself, or a step
\* of the evaluation loop of a call in flight
MediaCallReturns == (calls' = calls + 1 \/ pc = "media") /\ pc' # "media"

\* What the error-handling contract names: tokens, n_past, the status flags,
\* the previous-turn media hashes and the backend cache
SameSession(a, b) ==
    /\ a.embd = b.embd
    /\ a.n_past = b.n_past
    /\ a.mtmd_bitmap_past_hashes = b.mtmd_bitmap_past_hashes
    /\ a.kv = b.kv
    /\ a.context_full = b.context_full
    /\ a.truncated = b.truncated
    /\ a.has_next_token = b.has_next_token
    /\ a.stopped_eos = b.stopped_eos
    /\ a.stopped_word = b.stopped_word
    /\ a.stopped_limit = b.stopped_limit

\* C15: a multimodal load that fails during alignment (the tokens do not fit
\* in n_ctx, or the evaluation of a chunk fails) leaves tokens, n_past, the
\* status flags, the previous-turn media hashes and the backend cache as they
\* were when the call was made.
C15_FailedLoadLeavesSession ==
    [][ (MediaCallReturns /\ media'.outcome \in {"context_full", "eval_failed"})
        => SameSession(media'.before, ctx') ]_vars

\* C16: a load whose media is unsupported (http/https URL, data: URI without
\* comma or without base64, a file that cannot be opened or decoded) fails in
\* processMedia before n_past, tokens, the stored media hashes or the cache
\* are touched: the session loadPrompt(media_paths) was called on comes back
\* with these as they were.
C16_UnsupportedMediaTouchesNothing ==
    [][ (MediaCallReturns /\ (\E i \in 1..Len(media'.chunks) :
                                  media'.chunks[i].src \in UnsupportedSources))
        => /\ media'.outcome = "unsupported"
           /\ media'.evaluated = 0
           /\ LET s == IF driver' = "multimodal_completion_c"
                       THEN rewind(media'.before) ELSE media'.before
              IN  /\ ctx'.embd = s.embd
                  /\ ctx'.n_past = s.n_past
                  /\ ctx'.mtmd_bitmap_past_hashes = s.mtmd_bitmap_past_hashes
                  /\ ctx'.kv = s.kv
                  /\ ctx'.context_full = s.context_full ]_vars

\* An unsupported item is refused on a session that holds a loaded turn and
\* its cache
C16_Witness ==
    /\ media.outcome = "unsupported"
    /\ driver = "load_prompt_with_media_c"
    /\ ctx.embd # <<>>
    /\ ctx.kv # <<>>
    /\ ctx.mtmd_bitmap_past_hashes # <<>>
    /\ ctx.n_past > 0


\* cactus_load_prompt_with_media_c is called with the turn the last call
\* loaded, on the session as that load left its tokens
SameTurnAgain ==
    /\ pc = "idle" /\ calls' = calls + 1
    /\ driver' = "load_prompt_with_media_c"
    /\ media.outcome = "loaded"
    /\ media'.chunks = media.chunks
    /\ ctx.embd = media.tokens
    /\ ctx.mtmd_bitmap_past_hashes = media.bitmap_hashes

\* C17: loading the same (text, media) input a second time while tokens still
\* equals the token stream of the first load aligns n_past to tokens.length:
\* the whole previous turn is reused and no chunk is evaluated again.  The
\* call returns with n_past there, or one below it when the off-by-one guard
\* applies (the last token is a real token, not a media placeholder).
C17_SameTurnFullReuse ==
    [][ SameTurnAgain
        => /\ media'.outcome = "loaded"
           /\ media'.aligned = Len(media'.tokens)
           /\ media'.evaluated = 0
           /\ ctx'.n_past = IF ctx'.embd[Len(ctx'.embd)] # LLAMA_TOKEN_NULL
                            THEN Len(ctx'.embd) - 1
                            ELSE Len(ctx'.embd) ]_vars

\* The offset at which the first media chunk of the load ends
FirstMediaEnd(m) ==
    LET i == CHOOSE i \in 1..Len(m.chunks) :
                 m.chunks[i].type = "media" /\ m.chunk_pos[i] = m.chunk_pos_media[1]
    IN  m.chunk_pos_media[1] + m.chunks[i].n_pos

\* The turn the last call loaded is submitted again with two media items, the
\* same text and placeholder counts, and only the second item changed
SecondMediaChanged ==
    /\ pc = "idle" /\ calls' = calls + 1
    /\ driver' = "load_prompt_with_media_c"
    /\ media.outcome = "loaded"
    /\ ctx.embd = media.tokens
    /\ ctx.mtmd_bitmap_past_hashes = media.bitmap_hashes
    /\ media'.tokens = media.tokens
    /\ media'.chunk_pos = media.chunk_pos
    /\ Len(media.bitmap_hashes) = 2 /\ Len(media'.bitmap_hashes) = 2
    /\ media'.bitmap_hashes[1] = media.bitmap_hashes[1]
    /\ media'.bitmap_hashes[2] # media.bitmap_hashes[2]

\* C18 as stated: with only the second of two media items changed, alignment
\* yields n_past = the end offset of the first media chunk, neither 0 nor the
\* full token count.
C18_AlignsToFirstMediaEnd ==
    [][ SecondMediaChanged
        => /\ media'.aligned = FirstMediaEnd(media')
           /\ media'.aligned # 0 /\ media'.aligned # Len(media'.tokens) ]_vars

\* C18 amended: alignment yields n_past = the start offset of the second media
\* chunk (text between the two items is reused as well), neither 0 nor the
\* full token count, and evaluation starts with that chunk.
C18_AlignsToSecondMediaStart ==
    [][ SecondMediaChanged
        => /\ media'.aligned = media'.chunk_pos_media[2]
           /\ media'.aligned > 0 /\ media'.aligned < Len(media'.tokens)
           /\ pc' = "media"
           /\ ctx'.n_past = media'.aligned
           /\ media'.chunk_pos[media'.i] = media'.chunk_pos_media[2] ]_vars

\* The changed second item follows a text chunk: alignment has kept that text
C18_Witness ==
    /\ pc = "media"
    /\ media.evaluated = 0
    /\ Len(media.bitmap_hashes) = 2
    /\ ctx.embd = media.tokens
    /\ Len(ctx.mtmd_bitmap_past_hashes) = 2
    /\ ctx.mtmd_bitmap_past_hashes[1] = media.bitmap_hashes[1]
    /\ ctx.mtmd_bitmap_past_hashes[2] # media.bitmap_hashes[2]
    /\ media.aligned = media.chunk_pos_media[2]
    /\ media.aligned > FirstMediaEnd(media)
    /\ ctx.n_past = media.aligned

-----------------------------------------------------------------------------
(* Properties of small contexts, checked under SpecSmall *)

\* The step is a call that loads a prompt, and what it has loaded (after the
\* eviction, where there is one) is not shorter than n_ctx
LoadedDoesNotFit ==
    /\ pc = "idle"
    /\ calls' = calls + 1
    /\ IF driver' \in {"load_prompt_with_media_c", "multimodal_completion_c"}
       THEN Len(media'.tokens) >= ctx'.n_ctx
       ELSE /\ (driver' = "completion_c" \/ ~ctx.conversation_active \/ ctx.embd = <<>>)
            /\ Len(ctx'.embd) >= ctx'.n_ctx

\* C19: a load whose prompt cannot be brought below n_ctx (in particular when
\* the block size of the eviction is 0) comes back to its caller with
\* context_full = true, and nothing is decoded.
C19_ContextFullReported ==
    [][ LoadedDoesNotFit => (ctx'.context_full /\ pc' = "idle") ]_vars

-----------------------------------------------------------------------------
(* Properties of interrupted episodes, checked under SpecText *)

\* The driver returns from an episode with is_interrupted set, other than
\* after a failed decode
EndsByInterruption ==
    /\ pc \in {"loop", "decode"}
    /\ pc' = "idle"
    /\ ctx'.is_interrupted
    /\ result'.outcome # "decode_failed"

\* The step samples no token: the interruption is seen by the loop condition
\* or inside the decode loop of nextToken
SeenWithoutToken == pc = "loop" \/ result'.outcome = "interrupted"

\* C20 as stated: an episode ended by interruption ends with has_next_token
\* false (or stopped_limit set); the interruption sets neither stopped_eos nor
\* stopped_word and leaves generated_text as accumulated.
C20_InterruptedEndsWithoutNext ==
    [][ EndsByInterruption
        => /\ (~ctx'.has_next_token \/ ctx'.stopped_limit)
           /\ SeenWithoutToken
                => /\ ctx'.stopped_eos = ctx.stopped_eos
                   /\ ctx'.stopped_word = ctx.stopped_word
                   /\ ctx'.generated_text = ctx.generated_text ]_vars

\* C20 amended: an episode ended by interruption ends with is_interrupted set
\* and is_predicting cleared.  Seen inside the decode loop, the interruption
\* clears has_next_token; seen by the loop condition, it leaves has_next_token
\* as the last step left it; in both cases stopped_eos, stopped_word,
\* stopped_limit and generated_text are unchanged.  Raised by the token
\* callback, it leaves the session as the step of that token left it, the
\* token's text included.
C20_InterruptedEndKeepsState ==
    [][ EndsByInterruption
        => /\ ~ctx'.is_predicting
           /\ SeenWithoutToken
                => /\ ctx'.stopped_eos = ctx.stopped_eos
                   /\ ctx'.stopped_word = ctx.stopped_word
                   /\ ctx'.stopped_limit = ctx.stopped_limit
                   /\ ctx'.generated_text = ctx.generated_text
                   /\ ctx'.has_next_token = (pc = "loop" /\ ctx.has_next_token)
           /\ ~SeenWithoutToken
                => /\ result'.outcome = "token"
                   /\ ctx'.generated_text =
                         ctx.generated_text \o common_token_to_piece(result'.tok)
                   /\ ctx' = [AfterToken(SampleToken(ctx, result'.proposed, result.tg).s,
                                         result'.tok)
                                EXCEPT !.is_interrupted = TRUE, !.is_predicting = FALSE] ]_vars

\* An episode interrupted between two steps has returned its partial text
\* with has_next_token still set
C20_Witness ==
    /\ pc = "idle"
    /\ driver = "completion_c"
    /\ ctx.is_interrupted
    /\ ctx.has_next_token
    /\ ~ctx.stopped_limit /\ ~ctx.stopped_eos /\ ~ctx.stopped_word
    /\ ctx.generated_text # <<>>
    /\ result.outcome = "token"

-----------------------------------------------------------------------------
(* Properties of the result record and of the steps, checked under Spec *)

\* C21: the tokens-predicted count of the result record is the number of
\* tokens sampled and appended during the episode: every sampling step adds
\* one to num_tokens_predicted, whatever the number of prompt tokens the
\* step evaluated before it sampled.
C21_EverySampledTokenCounted ==
    [][ SamplingStep
        => /\ Len(ctx'.embd) = Len(ctx.embd) + 1
           /\ ctx'.num_tokens_predicted = ctx.num_tokens_predicted + 1 ]_vars

-----------------------------------------------------------------------------
(* Properties of the backend cache, checked under SpecCache *)

\* The cache cell of position p was computed from what tokens[p] holds: the
\* token itself, or a media item where tokens[p] is a placeholder
CellMatches(s, p) ==
    /\ p < Len(s.embd)
    /\ IF s.embd[p + 1] = LLAMA_TOKEN_NULL
       THEN KvGet(s.kv, p) <= MediaCell(0)
       ELSE KvGet(s.kv, p) = s.embd[p + 1]

\* C22: outside a processMedia call in flight, every position p < n_past has
\* a cache cell computed from the token now stored at tokens[p].
C22_CacheCoherent ==
    pc # "media" => \A p \in 0..(ctx.n_past - 1) : CellMatches(ctx, p)


-----------------------------------------------------------------------------
(* The shift block of nextToken, checked under Spec *)

\* A step begins by running the shift block
ShiftStep == pc = "loop" /\ pc' = "decode" /\ result'.shifted

\* seq without the d elements that follow its first from elements
Removed(seq, from, d) == SubSeq(seq, 1, from) \o SubSeq(seq, from + d + 1, Len(seq))

\* C23 as stated: the shift removes the n_discard = (n_past - n_keep - 1) / 2
\* tokens that follow the first n_keep tokens, keeps the others in order,
\* reduces n_past and tokens.length by n_discard and sets truncated.
C23_ShiftRemovesAfterKeep ==
    [][ ShiftStep
        => LET d == ShiftDiscard(ctx)
           IN  /\ ctx'.embd = Removed(ctx.embd, ctx.n_keep, d)
               /\ Len(ctx'.embd) = Len(ctx.embd) - d
               /\ ctx'.n_past = ctx.n_past - d
               /\ ctx'.truncated ]_vars

\* C23, amended: a shift with n_discard = (n_past - n_keep - 1) / 2 >= 0
\* removes the n_discard tokens that follow the first n_keep + 1 tokens, keeps
\* the others in order, reduces n_past and tokens.length by n_discard and sets
\* truncated.
C23_ShiftRemovesAfterKeepPlusOne ==
    [][ (ShiftStep /\ ShiftDiscard(ctx) >= 0)
        => LET d == ShiftDiscard(ctx)
           IN  /\ ctx'.embd = Removed(ctx.embd, ctx.n_keep + 1, d)
               /\ Len(ctx'.embd) = Len(ctx.embd) - d
               /\ ctx'.n_past = ctx.n_past - d
               /\ ctx'.truncated ]_vars

\* C23 witness: with n_ctx = 8 and n_keep = 2 a 7-token prompt and one sampled
\* token filled the window; the shift dropped the 4th and 5th token
C23_Witness ==
    /\ pc = "decode" /\ result.shifted /\ calls = 1
    /\ ctx.n_ctx = 8 /\ ctx.n_keep = 2 /\ ctx.n_past = 5 /\ ctx.truncated
    /\ SubSeq(ctx.embd, 1, 5) = <<1101, 1102, 1103, 1106, 1107>>
    /\ Len(ctx.embd) = 6


\* C24: whenever the shift block runs (tokens.length >= n_ctx at the start of a
\* step) it discards at least one token, so tokens.length strictly decreases;
\* it never runs as a no-op or as a growth of the buffer.
C24_ShiftDiscardsAtLeastOne ==
    [][ (pc = "loop" /\ pc' \in {"decode", "crashed"}
            /\ Len(ctx.embd) >= ctx.params_n_ctx)
        => /\ ShiftDiscard(ctx) >= 1
           /\ Len(ctx'.embd) < Len(ctx.embd) ]_vars


-----------------------------------------------------------------------------
(* The end of a step, checked under SpecText *)

\* n_remain after the decrement of the sampling block
RemainAfterSample(s) == IF s.n_remain > 0 THEN s.n_remain - 1 ELSE s.n_remain

\* C25: a step whose accepted token is EOS returns with stopped_eos = true and
\* has_next_token = false; a step that accepted another token returns with
\* has_next_token = (n_predict = -1 or n_remain > 0), or true when the
\* generated text ends in an incomplete UTF-8 sequence.
C25_StepEndFlags ==
    [][ SamplingStep
        => IF result'.tok = EosToken
           THEN ctx'.stopped_eos /\ ~ctx'.has_next_token
           ELSE /\ ctx'.has_next_token
                      = (\/ ctx.n_predict = -1
                         \/ RemainAfterSample(ctx) > 0
                         \/ IncompleteOf(ctx'.generated_text))
                /\ ctx'.stopped_eos = ctx.stopped_eos ]_vars

\* C25 witness: EOS was accepted right after a token that left the text
\* incomplete, and the step returned with stopped_eos and no next token
C25_Witness ==
    /\ pc = "loop" /\ result.outcome = "token" /\ result.tok = EosToken
    /\ ctx.stopped_eos /\ ~ctx.has_next_token
    /\ Len(ctx.generated_text) = 2 /\ IsLead2(ctx.generated_text[1])


-----------------------------------------------------------------------------
(* The start of a generation episode, checked under Spec *)

\* A driver call has set the session up and is about to run its generation loop
EpisodeStart == pc = "idle" /\ pc' = "loop" /\ calls' = calls + 1

\* C26: at the start of every generation episode, the first and every later
\* one on the same session, generated_text and stopping_word are empty,
\* stopped_eos, stopped_word and stopped_limit are false, the predicted-token
\* counter is 0 and n_remain is the episode's n_predict.  (truncated is not
\* constrained here: the prompt load that follows the reset in the same call
\* sets it again when it truncates.)
C26_EpisodeStartsClean ==
    [][ EpisodeStart
        => /\ ctx'.generated_text = <<>> /\ ctx'.stopping_word = <<>>
           /\ ~ctx'.stopped_eos /\ ~ctx'.stopped_word /\ ~ctx'.stopped_limit
           /\ ctx'.num_tokens_predicted = 0
           /\ ctx'.n_remain = ToSizeT(ctx'.n_predict) ]_vars


-----------------------------------------------------------------------------
(* The decode phase of a step, checked under Spec *)

\* C27: in a step the pending tokens [n_past, tokens.length) go to the backend
\* in order in chunks of at most n_batch tokens, n_past advances by the chunk
\* size only when the chunk decoded, the decode phase that ends without
\* failure or interruption ends with n_past = tokens.length, and after the
\* sampled token is appended n_past = tokens.length - 1.
C27_DecodePhaseCatchesUp ==
    [][ /\ (pc = "decode" /\ result'.outcome = "decode_failed")
            => ctx'.n_past = ctx.n_past
        /\ (pc = "decode" /\ ctx'.n_past # ctx.n_past)
            => /\ ctx'.n_past - ctx.n_past = Min(ctx.n_batch, Len(ctx.embd) - ctx.n_past)
               /\ ctx'.n_past - ctx.n_past >= 1
               /\ ctx'.n_past <= Len(ctx.embd)
        /\ SamplingStep
            => /\ ctx.n_past = Len(ctx.embd)
               /\ ctx'.n_past = Len(ctx'.embd) - 1 ]_vars


-----------------------------------------------------------------------------
(* Termination of a bounded episode, checked under SpecBounded *)

\* C28: with n_predict = N >= 1, successful decodes, no interruption and
\* complete UTF-8 pieces, the generation loop samples at most N tokens (each
\* sampled token adds one piece to generated_text, which the episode started
\* empty), it takes no further step once N tokens are sampled, and when it
\* ends stopped_eos or stopped_limit is true: stopped_eos when the last token
\* is EOS, stopped_limit with n_remain = 0 otherwise.
C28_BoundedEpisodeEnds ==
    [][ /\ (SamplingStep /\ ctx.n_predict >= 1)
            => /\ Len(ctx'.generated_text) = Len(ctx.generated_text) + 1
               /\ Len(ctx'.generated_text) <= ctx.n_predict
               /\ Len(ctx'.generated_text) = ctx.n_predict => ~LoopCondition(ctx')
        /\ (pc = "loop" /\ pc' = "idle" /\ ctx.n_predict >= 1)
            => /\ ~ctx.has_next_token
               /\ Len(ctx.generated_text) >= 1
               /\ IF result.tok = EosToken
                  THEN ctx.stopped_eos
                  ELSE ctx.stopped_limit /\ ctx.n_remain = 0 ]_vars

\* C28 witness: a follow-up episode with n_predict = 2 ended at its limit after
\* two sampled tokens, neither of them EOS
C28_Witness ==
    /\ pc = "idle" /\ calls = 2 /\ result.outcome = "token"
    /\ ctx.n_predict = 2 /\ Len(ctx.generated_text) = 2
    /\ result.tok # EosToken /\ ctx.stopped_limit /\ ~ctx.stopped_eos
    /\ ~ctx.has_next_token /\ ~ctx.is_predicting


-----------------------------------------------------------------------------
(* When the guide queue is left alone, checked under SpecGuide *)

\* C29: a step whose proposal is a control or end-of-generation token, or
\* which finds the guide queue empty, emits the sampler's proposal and leaves
\* guide_tokens unchanged.
C29_GuideLeftAlone ==
    [][ (SamplingStep /\ (~PlainProposal(result'.proposed) \/ ctx.guide_tokens = <<>>))
        => /\ result'.tok = result'.proposed
           /\ ctx'.guide_tokens = ctx.guide_tokens
           /\ ctx'.embd = Append(ctx.embd, result'.proposed) ]_vars

\* C29 witness: the first step after the queue ['x', 'y'] was installed
\* proposed a control token, which was emitted with the queue intact
C29_Witness ==
    /\ pc = "loop" /\ result.outcome = "token"
    /\ result.proposed = ControlToken /\ result.tok = ControlToken
    /\ ctx.guide_tokens = <<120, 121>>
    /\ Len(ctx.generated_text) = 1
    /\ ctx.embd[Len(ctx.embd)] = ControlToken


-----------------------------------------------------------------------------
(* Several stop strings, checked under SpecStop *)

\* The index the matcher finds for word: its first occurrence in text at or
\* after the start of its window, npos when there is none
MatchPos(text, word, last_token_size) ==
    LET hits == {q \in Occurrences(text, word) :
                    q >= WindowStart(text, word, last_token_size)}
    IN  IF hits = {} THEN npos ELSE CHOOSE q \in hits : \A r \in hits : q <= r

\* C30: in full mode over several stop strings the reported position is the
\* smallest match position over the non-empty stop strings of antiprompt, and
\* stopping_word is the first stop string, in the configured order, that
\* matches at that position.
C30_FirstPositionFirstWord ==
    [][ probe'.type = STOP_FULL =>
          LET text == probe'.text
              words == ctx.antiprompt
              at(k) == MatchPos(text, words[k], probe'.last_token_size)
              matching == {k \in 1..Len(words) : words[k] # <<>> /\ at(k) # npos}
          IN  matching # {} =>
                 /\ \E k \in matching : probe'.pos = at(k)
                 /\ \A k \in matching : probe'.pos <= at(k)
                 /\ \E k \in matching :
                       /\ at(k) = probe'.pos
                       /\ \A j \in matching : at(j) = probe'.pos => k <= j
                       /\ ctx'.stopping_word = words[k]
      ]_vars

\* C30 witness: with the stop strings "ab", "a" in that order, the text "ab"
\* and a last token of one byte both match at index 0 and "ab" is reported
C30_Witness ==
    /\ probe.type = STOP_FULL /\ probe.text = <<97, 98>> /\ probe.last_token_size = 1
    /\ ctx.antiprompt = << <<97, 98>>, <<97>> >>
    /\ probe.pos = 0 /\ ctx.stopping_word = <<97, 98>> /\ ctx.stopped_word


-----------------------------------------------------------------------------
(* The matcher run after every token, checked under SpecFeed *)

\* The smallest index at which a stop string of the session starts anywhere
\* in text, npos when none occurs
WholeSearch(s, text) ==
    LET all == UNION {Occurrences(text, w) : w \in StopWords(s)}
    IN  IF all = {} THEN npos ELSE CHOOSE q \in all : \A r \in all : q <= r

\* C31: when the matcher runs in full mode after each appended token with
\* last_token_size the length of that token's text, then at every step up to
\* and including the first at which the text contains a stop string it
\* reports what a search of the whole text from position 0 gives, and at that
\* first step it sets stopped_word and clears has_next_token.
C31_WindowLosesNothing ==
    [][ (probe'.type = STOP_FULL /\ WholeSearch(ctx, probe.text) = npos)
        => /\ probe'.pos = WholeSearch(ctx, probe'.text)
           /\ probe'.pos # npos
                => /\ ctx'.stopped_word /\ ~ctx'.has_next_token
                   /\ probe'.pos \in Occurrences(probe'.text, ctx'.stopping_word)
           /\ probe'.pos = npos => ctx' = ctx ]_vars

\* C31 witness: with the stop string "ab" the text "a" grew by the 3-byte
\* piece "bba"; the match at index 0, which ends inside that piece, was
\* reported at once
C31_Witness ==
    /\ probe.type = STOP_FULL /\ probe.text = <<97, 98, 98, 97>>
    /\ probe.last_token_size = 3 /\ probe.pos = 0
    /\ ctx.antiprompt = << <<97, 98>> >>
    /\ ctx.stopped_word /\ ~ctx.has_next_token


-----------------------------------------------------------------------------
(* Partial mode of the stop matcher, checked under SpecStop *)

\* The lengths of the non-empty prefixes of word that text ends with
PrefixLens(text, word) ==
    {n \in 1..Min(Len(word), Len(text)) :
        SubSeq(word, 1, n) = SubSeq(text, Len(text) - n + 1, Len(text))}

\* The length of the longest prefix of word that text ends with (0: none)
LongestPrefix(text, word) ==
    IF PrefixLens(text, word) = {} THEN 0
    ELSE CHOOSE n \in PrefixLens(text, word) : \A m \in PrefixLens(text, word) : m <= n

\* C32 as stated: in partial mode, when the text ends with a non-empty prefix
\* of a non-empty stop string the matcher reports the length of the longest
\* such prefix and otherwise no match; empty stop strings and empty text never
\* match, and the session is unchanged.
C32_PartialReportsLength ==
    [][ probe'.type = STOP_PARTIAL =>
          LET text == probe'.text
              matching == {w \in StopWords(ctx) : LongestPrefix(text, w) > 0}
          IN  /\ IF matching = {} THEN probe'.pos = npos
                 ELSE \E w \in matching : probe'.pos = LongestPrefix(text, w)
              /\ ctx' = ctx ]_vars

\* C32 amended: in partial mode, when the text ends with a non-empty prefix of
\* a non-empty stop string the matcher reports the index at which the longest
\* such prefix starts in the text, len(text) - len(prefix), the smallest such
\* index over the stop strings, and otherwise no match; empty stop strings and
\* empty text never match, and the session is unchanged.
C32_PartialReportsStart ==
    [][ probe'.type = STOP_PARTIAL =>
          LET text == probe'.text
              matching == {w \in StopWords(ctx) : LongestPrefix(text, w) > 0}
              starts == {Len(text) - LongestPrefix(text, w) : w \in matching}
          IN  /\ IF matching = {} THEN probe'.pos = npos
                 ELSE probe'.pos \in starts /\ \A q \in starts : probe'.pos <= q
              /\ ctx' = ctx ]_vars

\* C32 witness: the text "aba" ends with the prefixes "a" and "aba" of the stop
\* string "aba"; the start of the longer one is reported and nothing is set
C32_Witness ==
    /\ probe.type = STOP_PARTIAL /\ probe.text = <<97, 98, 97>> /\ probe.pos = 0
    /\ ctx.antiprompt = << <<97, 98, 97>> >>
    /\ ~ctx.stopped_word /\ ctx.stopping_word = <<>>


-----------------------------------------------------------------------------
(* Alignment of a turn with the previous one, checked under SpecAlign *)

\* processMedia has aligned the turn of this call with the tokens of the session
AlignStep ==
    /\ pc = "idle" /\ calls' = calls + 1
    /\ driver' = "load_prompt_with_media_c"
    /\ media'.outcome \in {"running", "loaded"}

\* The length of the longest common prefix of a and b
CommonPrefixLength(a, b) ==
    LET same == {n \in 0..Min(Len(a), Len(b)) : SubSeq(a, 1, n) = SubSeq(b, 1, n)}
    IN  CHOOSE n \in same : \A m \in same : m <= n

\* The offset at which chunk i of the load m ends
ChunkEnd(m, i) == IF i = Len(m.chunk_pos) THEN Len(m.tokens) ELSE m.chunk_pos[i + 1]

\* n rounded down to the start of the chunk it lies strictly inside, if any
RoundedToChunkStart(m, n) ==
    LET inside == {i \in 1..Len(m.chunk_pos) : m.chunk_pos[i] < n /\ n < ChunkEnd(m, i)}
    IN  IF inside = {} THEN n ELSE m.chunk_pos[CHOOSE i \in inside : TRUE]

\* No media item of the load differs from the previous turn's item at its index
NoHashDiffers(s, m) ==
    \A i \in 1..Min(Len(m.bitmap_hashes), Len(s.mtmd_bitmap_past_hashes)) :
        m.bitmap_hashes[i] = s.mtmd_bitmap_past_hashes[i]

\* C33: when no media hash intervenes, alignment yields the longest common
\* prefix length of the previous and the new tokens, rounded down to the start
\* of the chunk it falls strictly inside (any chunk, the last one included) and
\* unchanged when it lies at a chunk start or at the end of the new tokens.
C33_RoundsDownInsideAnyChunk ==
    [][ (AlignStep /\ NoHashDiffers(ctx, media'))
        => media'.aligned
             = RoundedToChunkStart(media', CommonPrefixLength(ctx.embd, media'.tokens)) ]_vars


\* The candidate n_past the hash correction starts from: the common prefix
\* length after the chunk-boundary correction
Candidate(s, m) == BoundaryAdjusted(common_part(s.embd, m.tokens), m.chunk_pos)

\* The media chunks of the load m, among those at or before offset n, whose
\* hash differs from the hash the previous turn had at the same index
DifferingMedia(s, m, n) ==
    {i \in 1..Min(Len(m.bitmap_hashes), Len(s.mtmd_bitmap_past_hashes)) :
        /\ m.chunk_pos_media[i] <= n
        /\ m.bitmap_hashes[i] # s.mtmd_bitmap_past_hashes[i]}

\* C34: among the media chunks whose offset is at most the candidate n_past,
\* the first whose hash differs from the previous turn's hash at the same index
\* clamps n_past to that chunk's offset, and not below it; when none differs
\* n_past stays the candidate.
C34_ClampsToFirstDifferingMedia ==
    [][ AlignStep
        => LET cand == Candidate(ctx, media')
               diff == DifferingMedia(ctx, media', cand)
           IN  /\ media'.aligned <= cand
               /\ IF diff = {} THEN media'.aligned = cand
                  ELSE \E i \in diff :
                          /\ \A j \in diff : i <= j
                          /\ media'.aligned = media'.chunk_pos_media[i] ]_vars

\* C34 witness: the previous turn is loaded again with its last text and its
\* second image changed; alignment went back from inside the last text to the
\* start of the second image and kept the first image
C34_Witness ==
    /\ pc = "media" /\ calls = 2 /\ media.evaluated = 0
    /\ Len(ctx.mtmd_bitmap_past_hashes) = 2 /\ Len(media.bitmap_hashes) = 2
    /\ ctx.mtmd_bitmap_past_hashes[1] = media.bitmap_hashes[1]
    /\ ctx.mtmd_bitmap_past_hashes[2] # media.bitmap_hashes[2]
    /\ common_part(ctx.embd, media.tokens) = 9
    /\ media.aligned = 6 /\ media.chunk_pos_media = <<2, 6>>
    /\ ctx.n_past = 6


-----------------------------------------------------------------------------
(* The off-by-one guard after a multimodal load, checked under SpecMedia *)

\* The tokens nextToken would hand to llama_decode next
NextDecodeChunk(s) ==
    SubSeq(s.embd, s.n_past + 1, Min(Len(s.embd), s.n_past + s.n_batch))

\* C35: a multimodal load returns with n_past = tokens.length when the last
\* token is a media placeholder (no decrement) and with n_past below
\* tokens.length when the last token is real, so that the first step evaluates
\* at least that token; and the generation loop never hands a placeholder to
\* the raw-token decode.
C35_GuardSparesPlaceholders ==
    [][ /\ (MediaCallReturns /\ media'.outcome = "loaded")
            => IF ctx'.embd[Len(ctx'.embd)] = LLAMA_TOKEN_NULL
               THEN ctx'.n_past = Len(ctx'.embd)
               ELSE ctx'.n_past < Len(ctx'.embd)
        /\ (pc' = "decode" /\ ctx'.n_past < Len(ctx'.embd))
            => \A k \in 1..Len(NextDecodeChunk(ctx')) :
                   NextDecodeChunk(ctx')[k] # LLAMA_TOKEN_NULL ]_vars


-----------------------------------------------------------------------------
(* Tokenizing text with media, checked under SpecTokenize *)

\* The number of tokens of the chunks before chunk i
RECURSIVE ChunkOffset(_, _)
ChunkOffset(chunks, i) ==
    IF i = 1 THEN 0 ELSE ChunkOffset(chunks, i - 1) + chunks[i - 1].n_pos

\* The indices of the media chunks
MediaIndices(chunks) == {i \in 1..Len(chunks) : chunks[i].type = "media"}

\* C36: in the result of tokenizing text with media (through
\* cactus_tokenize_with_media_c as through the prompt load) every media chunk
\* holds as many sentinel tokens as the encoder reports positions for it and
\* no other token is the sentinel, chunk_pos has one offset per chunk, the
\* number of tokens of the chunks before it, chunk_pos_media has exactly the
\* offsets of the media chunks, and there is one hash per media item.
C36_TokenizedWell ==
    media.outcome \in {"tokenized", "running", "loaded", "eval_failed", "context_full"}
    => LET chunks == media.chunks
           total == ChunkOffset(chunks, Len(chunks)) + chunks[Len(chunks)].n_pos
       IN  /\ Len(media.tokens) = total
           /\ Len(media.chunk_pos) = Len(chunks)
           /\ \A i \in 1..Len(media.chunk_pos) : media.chunk_pos[i] = ChunkOffset(chunks, i)
           /\ \A i \in 1..Len(chunks) : \A j \in 1..chunks[i].n_pos :
                 ChunkOffset(chunks, i) + j <= Len(media.tokens)
                 => (media.tokens[ChunkOffset(chunks, i) + j] = LLAMA_TOKEN_NULL
                        <=> chunks[i].type = "media")
           /\ Len(media.chunk_pos_media) = Cardinality(MediaIndices(chunks))
           /\ {media.chunk_pos_media[k] : k \in 1..Len(media.chunk_pos_media)}
                 = {ChunkOffset(chunks, i) : i \in MediaIndices(chunks)}
           /\ Len(media.bitmap_hashes) = Cardinality(MediaIndices(chunks))


-----------------------------------------------------------------------------
(* loadPrompt's two paths, checked under Spec *)

\* The step is a text driver call that runs loadPrompt
TextLoadStep == LoadStep /\ driver' \in {"completion_c", "conversation"}

\* seq holds tokens of the prompt of driver call c only, in the prompt's order
FromPrompt(seq, c) ==
    /\ \A i \in 1..Len(seq) : seq[i] > 1000 + 100 * c /\ seq[i] < 1100 + 100 * c
    /\ \A i \in 1..(Len(seq) - 1) : seq[i] < seq[i + 1]

\* loadPrompt appended to the tokens held before the step
AppendedOnly ==
    /\ Len(ctx'.embd) >= Len(ctx.embd)
    /\ SubSeq(ctx'.embd, 1, Len(ctx.embd)) = ctx.embd
    /\ FromPrompt(SubSeq(ctx'.embd, Len(ctx.embd) + 1, Len(ctx'.embd)), calls')

\* C37: a loadPrompt on empty tokens leaves tokens of the new prompt only and
\* n_past = 0; a loadPrompt on non-empty tokens leaves the tokens held before
\* unchanged, followed by tokens of the new prompt, and leaves n_past unchanged.
C37_LoadReplacesOrAppends ==
    [][TextLoadStep =>
         IF ctx.embd = <<>>
         THEN FromPrompt(ctx'.embd, calls') /\ ctx'.n_past = 0
         ELSE AppendedOnly /\ ctx'.n_past = ctx.n_past]_vars

\* The same for the loads that do not reach truncatePrompt
C37_LoadWithoutTruncation ==
    [][(TextLoadStep /\ ~ctx'.truncated) =>
         IF ctx.embd = <<>>
         THEN FromPrompt(ctx'.embd, calls') /\ ctx'.n_past = 0
         ELSE AppendedOnly /\ ctx'.n_past = ctx.n_past]_vars


-----------------------------------------------------------------------------
(* n_keep after a prompt load *)

\* clamp(k, 0, n_ctx - 4), 0 when n_ctx <= 4
ClampedKeep(k, nctx) == Max(0, Min(IF nctx > 4 THEN nctx - 4 ELSE 0, k))

\* The number of tokens of the prompt the text driver call of this step loads:
\* the prompt of call c ends with the token 1000 + 100 * c + its length
LoadedLen == ctx'.embd[Len(ctx'.embd)] - (1000 + 100 * calls')

\* C38: after every prompt load of a session whose embedder requested
\* n_keep = -1 (keep everything), n_keep is the full length of the prompt
\* loaded in that episode (the new prompt's, or that of all the tokens held
\* with it) clamped to [0, n_ctx - 4], 0 when n_ctx <= 4; and whenever
\* truncation or a shift can run 0 <= n_keep <= max(0, n_ctx - 4).
C38_KeepEverythingEachEpisode ==
    [][(TextLoadStep /\ ctx'.embd # <<>>) =>
         /\ \/ ctx'.n_keep = ClampedKeep(LoadedLen, ctx.n_ctx)
            \/ ctx'.n_keep = ClampedKeep(Len(ctx.embd) + LoadedLen, ctx.n_ctx)
         /\ ctx'.n_keep >= 0
         /\ ctx'.n_keep <= Max(0, ctx.n_ctx - 4)]_vars

\* Every load leaves n_keep = clamp(k, 0, n_ctx - 4) for the k that
\* params.n_keep holds when loadPrompt is entered, a negative k standing for
\* the number of tokens held after the new ones were added
C38_ClampOfValueAtEntry ==
    [][(TextLoadStep /\ ctx'.embd # <<>>) =>
         ctx'.n_keep = ClampedKeep(IF ctx.n_keep < 0 THEN Len(ctx.embd) + LoadedLen
                                   ELSE ctx.n_keep, ctx.n_ctx)]_vars

\* 0 <= n_keep <= max(0, n_ctx - 4) while a generation loop runs
C38_KeepInRangeInLoop ==
    pc \in {"loop", "decode"} => ctx.n_keep >= 0 /\ ctx.n_keep <= Max(0, ctx.n_ctx - 4)


-----------------------------------------------------------------------------
(* A completion started after an interrupted one, checked under Spec *)

\* The step is a driver call on a session whose last episode was interrupted
\* and that reaches its generation loop
StartAfterInterrupt ==
    /\ pc = "idle" /\ calls > 0 /\ ctx.is_interrupted
    /\ calls' = calls + 1
    /\ pc' = "loop"

\* C39: when a completion is started, without a rewind by the caller, on a
\* session whose last episode was interrupted, is_interrupted is false when the
\* new generation loop starts.
C39_InterruptNotCarriedOver ==
    [][StartAfterInterrupt => ~ctx'.is_interrupted]_vars

\* The same for the calls that find no tokens in the session
C39_InterruptClearedOnEmptyTokens ==
    [][(StartAfterInterrupt /\ ctx.embd = <<>> /\ driver' = "completion_c")
           => ~ctx'.is_interrupted]_vars


-----------------------------------------------------------------------------
(* Guide tokens installed before a completion call, checked under SpecGuide *)

\* The step is a cactus_completion_c call on a session with guide tokens queued
GuidedCompletionStart ==
    /\ pc = "idle" /\ ctx.guide_tokens # <<>>
    /\ calls' = calls + 1
    /\ driver' = "completion_c"
    /\ pc' = "loop"

\* C40: the set-up of a completion call leaves the guide tokens installed
\* before it queued and the guide latch armed, so that they are there when the
\* call samples its first token.
C40_SetupKeepsGuideTokens ==
    [][GuidedCompletionStart =>
         /\ ctx'.guide_tokens = ctx.guide_tokens
         /\ ctx'.next_token_uses_guide_token]_vars

\* The queue alone is kept by the calls that find tokens in the session
C40_QueueKeptOnContinuation ==
    [][(GuidedCompletionStart /\ ctx.embd # <<>>)
           => ctx'.guide_tokens = ctx.guide_tokens]_vars

=============================================================================
